---- MODULE Spec2Model ----
(***************************************************************************)
(* hikari-clusters: the IPC hub (ipc_server.py), the hub client's request/ *)
(* reply engine (ipc_client.py, callbacks.py, commands.py), its connection *)
(* and tasks (ipc_client.py, task_manager.py), its handlers (events.py,    *)
(* commands.py) and the brain's placement loop (brain.py, server.py), as   *)
(* state machines.                                                         *)
(*                                                                         *)
(* The module holds several specifications over one set of variables:      *)
(*   SpecHub    the hub server and the sockets connected to it             *)
(*   SpecCmd    a hub client that dispatches the commands it receives      *)
(*   SpecIpc    a client's send_command calls and the clients that answer  *)
(*   SpecBrain  the brain's placement loop, its servers and their clusters *)
(*   SpecLaunch the placement loop while no connection or process is lost  *)
(*   SpecReap   the placement loop while cluster processes exit            *)
(*   SpecConn   one role client: its connection task, its tasks, close()   *)
(*   SpecReg    the command and event handlers while groups are included   *)
(*   SpecEvents the event handler while events are handled                 *)
(*   SpecCache  a client's caches, the presence updates and reads on them  *)
(*   SpecRecv   a client's receive loop and the tasks it creates           *)
(*   SpecSession a client's connection together with its uid and caches    *)
(*   SpecShutdown the hub server from start() to close()                   *)
(*   SpecRelaunch a client's cluster caches while clusters are relaunched  *)
(*   SpecWorker the worker process of a cluster: start, join, close        *)
(* Each specification leaves the variables of the other parts at their     *)
(* initial values.                                                         *)
(***************************************************************************)
EXTENDS Integers, Sequences, FiniteSets, TLC

\* ------------------------------------------------------------------ bounds
\* websocket connections the hub accepts during one run
MaxConn == 2
\* sockets that the client side closes during one run
MaxCloses == 1
\* frames, besides the first ones, that all clients together send in one run
MaxFrames == 2
\* presence broadcasts of one run
MaxBroadcasts == 1

\* frames the receive loop of SpecRecv reads in one run
MaxRecv == 3

\* hub clients of the request/reply specifications; client 1 is the caller
NClients == 3
\* send_command calls of one run
MaxCalls == 1
\* commands sent to the dispatching client in one run of SpecCmd
MaxCmds == 3
\* connection losses of the hub clients in one run
MaxDrops == 1

\* the servers of the placement specification: Brain.total_servers
NServers == 2
\* Brain.clusters_per_server and Brain.shards_per_cluster of that run
ClustersPerServer == 2
ShardsPerCluster == 2
\* connection losses of the servers in one run
MaxServerDrops == 1
\* cluster processes that exit in one run
MaxDeaths == 1

\* the functions that command and event groups are made of
NFuncs == 2
\* include calls of one run, on the command and the event handler together
MaxIncludes == 2
\* events a client handles in one run
MaxEvents == 2

\* connections the role client makes in one run
MaxAttempts == 2
\* messages the role client handles in tasks of their own in one run
MaxHandlers == 1
\* frames the role's own loop sends in one run
MaxSends == 2

\* ------------------------------------------------------- program constants
\* Callback.wait: the default of its timeout parameter, in seconds
Timeout == 3
\* Callback.wait sleeps 0.1 s between two looks: ten looks a second
TicksPerSecond == 10

\* close_codes.INVALID_TOKEN
INVALID_TOKEN == 4001

\* IpcServer.token: the token the hub was constructed with
token == "T"

\* ---------------------------------------------------------------- helpers
Range(s) == {s[i] : i \in 1..Len(s)}

RECURSIVE Count(_, _)
Count(s, x) ==
    IF s = <<>> THEN 0
    ELSE (IF Head(s) = x THEN 1 ELSE 0) + Count(Tail(s), x)

\* a _serve whose finally clause leaves the map as it is
WithoutNothing(s, x) == s

RECURSIVE Without(_, _)
\* the sequence s with every occurrence of x removed (del dict[key])
Without(s, x) ==
    IF s = <<>> THEN <<>>
    ELSE IF Head(s) = x THEN Without(Tail(s), x)
    ELSE <<Head(s)>> \o Without(Tail(s), x)

Conn == 1..MaxConn

\* a UID that the hub never assigns within the bounds: an unknown recipient
UnknownUid == MaxConn + 1
Uids == 1..UnknownUid

\* ------------------------------------------------------------------ frames
\* One record shape for every frame on a socket.
\*   kind "token"    the client's first frame {"token": tok}; tok = "" when
\*                   the object has no token field
\*   kind "garbage"  a frame json.loads or deserialize_payload fails on
\*   kind "payload"  an envelope: src is the connection that sent it, sq its
\*                   place in the order of all sends, to its recipients list
\*   kind "hello"    the hub's handshake reply {uid: n, client_uids: to}
\*   kind "internal" the presence message {internal: true, client_uids: to}
Frame(kind, tok, n, src, sq, to) ==
    [kind |-> kind, tok |-> tok, n |-> n, src |-> src, sq |-> sq, to |-> to]

NoFrame == Frame("none", "", 0, 0, 0, <<>>)
TokenFrame(tok) == Frame("token", tok, 0, 0, 0, <<>>)
GarbageFrame(c, k) == Frame("garbage", "", 0, c, k, <<>>)
PayloadFrame(c, k, to) == Frame("payload", "", 0, c, k, to)

Tokens == {"T", "WRONG", ""}
FirstFrames ==
    {TokenFrame(t) : t \in Tokens} \cup {Frame("garbage", "", 0, 0, 0, <<>>)}

\* recipients lists a sender may write: two different UIDs; an unknown UID
\* before a UID that is listed twice
RecipientLists == {<<1, 2>>, <<UnknownUid, 2, 2>>}

VARIABLES
    \* ---- hub server (ipc_server.py)
    current_uid,   \* IpcServer._current_uid
    clients,       \* IpcServer.clients: its keys, in insertion order
    sock,          \* per connection: "unused", "open" or "closed" (ws.open)
    pc,            \* per connection: where its _serve coroutine stands
    uidOf,         \* per connection: the uid _handshake returned, 0 if none
    inq,           \* per connection: frames sent by the client, not yet read
    outq,          \* per connection: what the hub has sent on it (see Sent)
    closeCode,     \* per connection: the code the hub closed it with, 0 if none
    cur,           \* per connection: msg, the frame _serve is dispatching
    todo,          \* per connection: deliveries left in its running _dispatch
    bPc,           \* _send_client_uids_loop: "sleep" or "dispatch"
    bTodo,         \* deliveries left in the broadcast's _dispatch
    \* ---- history of the hub run
    assigned,      \* the uids handed out, in order
    firstOf,       \* per connection: the first frame its client sent
    sentLog,       \* the frames clients sent after their first ones, in order
    dispStart,     \* per connection: who was online when its dispatch began
    nbcast,        \* presence broadcasts started
    ncloses,       \* sockets closed by their client
    \* ---- hub clients (ipc_client.py, callbacks.py, commands.py)
    uid,           \* per client: IpcClient.uid
    up,            \* per client: IpcClient._ws is set, the client is connected
    commands,      \* per client: the names in CommandHandler.commands
    tasks,         \* handle_command tasks suspended in their command function
    net,           \* payloads the hub has forwarded, not yet read by their
                   \* recipient
    curr_cbk,      \* the caller's CallbackHandler._curr_cbk
    callbacks,     \* the caller's CallbackHandler.callbacks
    callPc,        \* the caller's send_command: "idle", "waiting", "returned"
    elapsed,       \* Callback.wait: utcnow() - start, in ticks of 0.1 s
    result,        \* what the latest send_command returned
    callTo,        \* the recipients the latest send_command was given
    client_uids,   \* the caller's IpcClient.client_uids
    \* ---- history of the clients' run
    ncmds,         \* command frames sent so far
    ncalls,        \* send_command calls made so far
    ndrops,        \* connections lost so far
    taskLog,       \* per handled command: what happened and what was sent
    reportedGone,  \* uids that a presence message took out of client_uids
    sleptSettled,  \* the wait slept on although no responder that is still
                   \* connected had its answer missing
    \* ---- the brain, its servers and their clusters (brain.py, server.py,
    \* ---- cluster.py)
    servers,       \* the brain's ipc.servers, in the order of insertion
    clusters,      \* the brain's ipc.clusters
    waiting_for,   \* Brain._waiting_for, <<>> for None
    mainPc,        \* Brain._main_loop: "sleep", or "calling" in send_command
    launchTo,      \* the server uid and the shards of the command being sent
    srvUid,        \* per server: its ipc.uid
    srvUp,         \* per server: its client is connected
    srvClusters,   \* per server: its ipc.clusters
    procs,         \* the cluster processes the servers have started
    cmdq,          \* launch_cluster commands on their way to a server
    nlaunch,       \* launch_cluster commands sent so far
    nsrvdrops,     \* server connections lost so far
    cluster_processes, \* per server: Server.cluster_processes, the
                   \* entries [key, id] of the dict
    ndeaths,       \* cluster processes that exited so far
    \* ---- one role client: its connection and its tasks (ipc_client.py,
    \* ---- task_manager.py, Server.close and its like)
    reconnect,     \* IpcClient.reconnect
    clientToken,   \* IpcClient.token
    connPc,        \* IpcClient._start: "connecting", "handshake", "ready",
                   \* or "done" when the task has ended
    connExit,      \* how the _start task ended: "" while it runs, "return",
                   \* or the exception that ended it
    _ws,           \* IpcClient._ws is set
    stop_future,   \* IpcClient.stop_future is done
    ready_future,  \* IpcClient.ready_future: "pending", "done", "cancelled"
    attempts,      \* connections made so far
    tstate,        \* per task: "none" (not created), "running", "done"
    cancelReq,     \* the tasks that Task.cancel() was called on
    closePc,       \* close() of the role: "open" (not called), "waitIpc",
                   \* "waitRole", "closed" (returned)
    written,       \* the frames written to the socket: [by, n, closed]
    rejectedAt,    \* the attempt the hub answered with INVALID_TOKEN, or 0
    doneCb,        \* the done callback of the _start task has run
    role,          \* which role it is: "server", "brain", "cluster", or
                   \* "client" for a BaseClient
    wire,          \* the close code of the connection once it has ended
                   \* and _recv_loop has not yet been resumed; else 0
    \* ---- one client's handlers (events.py, commands.py)
    events,        \* EventHandler.events: name -> list of functions
    handler_commands, \* CommandHandler.commands: name -> function
    evName,        \* the name of the event handle_event is in, "" if none
    evIdx,         \* the place of its for loop in the list
    invoked,       \* the calls it made so far: [func, outcome]
    handled,       \* the last event handled to the end: [name,
                   \* registered, invoked, sent], <<>> before the first
    incLog,        \* the include calls made: [kind, group, before, after,
                   \* raised]
    nevents,       \* events handled so far
    \* ---- one client's caches and receive loop (ipc_client.py)
    clusters_by_cluster_id, \* IpcClient.clusters_by_cluster_id
    ret,           \* the last call on the caches: [op, arg, val]; for
                   \* _update_clients val is the set of uids it evicted
    msgLog,        \* the frames _recv_loop read, in order: [frame, by,
                   \* decoded]
    \* ---- the hub server from start() to close() (ipc_server.py,
    \* ---- task_manager.py)
    hub_stop_future,  \* IpcServer.stop_future is done
    hub_ready_future, \* IpcServer.ready_future: "pending", "done",
                   \* "cancelled"
    hubTask,       \* per task of IpcServer.tasks: "running", "done", or
                   \* "cancelled"
    acceptPc,      \* IpcServer._start: "starting", "serving" (the server
                   \* listens, _start awaits stop_future), "closing" (it
                   \* listens no more and waits for its handlers), "done"
    acceptExit,    \* how _start ended: "" while it runs, "return", or the
                   \* exception that ended it
    loopPc,        \* _send_client_uids_loop: "wait" in wait_until_ready,
                   \* "loop" once past it
    hubCancelReq,  \* the tasks that cancel_all called Task.cancel() on
    hubClosePc,    \* IpcServer.close: "open" (not called), "waiting" in
                   \* wait_for_all, "closed" (returned)
    serving,       \* the _serve handlers that have not ended
    naccepted,     \* connections accepted so far
    \* ---- the worker process of one cluster (cluster.py)
    cluster_stop_future \* Cluster.stop_future is done

hubVars == <<current_uid, clients, sock, pc, uidOf, inq, outq, closeCode,
             cur, todo, bPc, bTodo, assigned, firstOf, sentLog, dispStart,
             nbcast, ncloses>>

\* the hub server's variables other than its uid counter
hubRest == <<clients, sock, pc, uidOf, inq, outq, closeCode, cur, todo, bPc,
             bTodo, assigned, firstOf, sentLog, dispStart, nbcast, ncloses>>

ipcVars == <<uid, up, commands, tasks, net, curr_cbk, callbacks, callPc,
             elapsed, result, callTo, client_uids, ncmds, ncalls, ndrops,
             taskLog, reportedGone, sleptSettled>>

brainVars == <<servers, clusters, waiting_for, mainPc, launchTo, srvUid,
               srvUp, srvClusters, procs, cmdq, nlaunch, nsrvdrops,
               cluster_processes, ndeaths>>

connVars == <<reconnect, clientToken, connPc, connExit, _ws, stop_future,
              ready_future, attempts, tstate, cancelReq, closePc, written,
              rejectedAt, doneCb, role, wire>>

regVars == <<events, handler_commands, evName, evIdx, invoked, handled,
             incLog, nevents>>

cacheVars == <<clusters_by_cluster_id, ret, msgLog>>

workerVars == <<cluster_stop_future>>

hubLife == <<hub_stop_future, hub_ready_future, hubTask, acceptPc,
             acceptExit, loopPc, hubCancelReq, hubClosePc, serving,
             naccepted>>

\* the hub server's own variables, and the worker's
lifeVars == <<hubLife, workerVars>>

roleVars == <<connVars, regVars, cacheVars, lifeVars>>

\* the request/reply engine's variables other than client_uids
ipcRest == <<uid, up, commands, tasks, net, curr_cbk, callbacks, callPc,
             elapsed, result, callTo, ncmds, ncalls, ndrops, taskLog,
             reportedGone, sleptSettled>>

\* the request/reply engine's variables other than the client's own uid
\* and client_uids
ipcQuiet == <<up, commands, tasks, net, curr_cbk, callbacks, callPc, elapsed,
              result, callTo, ncmds, ncalls, ndrops, taskLog, reportedGone,
              sleptSettled>>

\* the placement variables other than the brain's caches and waiting_for
brainRest == <<mainPc, launchTo, srvUid, srvUp, srvClusters, procs, cmdq,
               nlaunch, nsrvdrops, cluster_processes, ndeaths>>

vars == <<hubVars, ipcVars, brainVars, roleVars>>

\* ------------------------------------------------------------- hub server
\* a uid taken from the size of the map instead of the counter
NextUidFromMap(cur_uid) == Len(clients) + 1

\* IpcServer._next_uid: the value it returns for the counter cur_uid
NextUid(cur_uid) == cur_uid + 1

\* a handshake that accepts any token
TokenOkAny(req) == req.kind = "token"

\* _handshake, the test of line 184 negated: the request carries the token
TokenOk(req) == req.kind = "token" /\ req.tok = token

\* the connection holding uid u in IpcServer.clients, 0 if there is none
ConnOf(u) ==
    IF \E c \in Conn : uidOf[c] = u /\ u \in Range(clients)
    THEN CHOOSE c \in Conn : uidOf[c] = u
    ELSE 0

\* _dispatch, lines 212-214: the recipient is in the map and its socket open
Online(u) == ConnOf(u) # 0 /\ sock[ConnOf(u)] = "open"

OnlineUids == {u \in Range(clients) : Online(u)}

\* a dispatch that walks through the whole map instead of the list given
DeliveriesToAll(to, msg) ==
    [i \in 1..Len(clients) |-> [uid |-> clients[i], f |-> msg]]

\* the deliveries one _dispatch(to, msg) call walks through
Deliveries(to, msg) == [i \in 1..Len(to) |-> [uid |-> to[i], f |-> msg]]

\* What the hub has sent on one socket: pay, the payload frames in the order
\* of their ws.send calls; nctl, how many handshake replies and presence
\* messages; uids, the client_uids list of the latest of these.
NoneSent == [pay |-> <<>>, nctl |-> 0, uids |-> <<>>]

\* ws.send(f) on a socket that has sent box so far
Sent(box, f) ==
    IF f.kind = "payload"
    THEN [box EXCEPT !.pay = Append(@, f)]
    ELSE [box EXCEPT !.nctl = @ + 1, !.uids = f.to]

\* one iteration of _dispatch's loop on the sockets' outputs out
DispatchOne(out, d) ==
    IF Online(d.uid)
    THEN [out EXCEPT ![ConnOf(d.uid)] = Sent(@, d.f)]
    ELSE out

\* the hub server's variables other than its uid counter, after __init__
HubIdle ==
    /\ clients = <<>>
    /\ sock = [c \in Conn |-> "unused"]
    /\ pc = [c \in Conn |-> "idle"]
    /\ uidOf = [c \in Conn |-> 0]
    /\ inq = [c \in Conn |-> <<>>]
    /\ outq = [c \in Conn |-> NoneSent]
    /\ closeCode = [c \in Conn |-> 0]
    /\ cur = [c \in Conn |-> NoFrame]
    /\ todo = [c \in Conn |-> <<>>]
    /\ bPc = "sleep"
    /\ bTodo = <<>>
    /\ assigned = <<>>
    /\ firstOf = [c \in Conn |-> NoFrame]
    /\ sentLog = <<>>
    /\ dispStart = [c \in Conn |-> {}]
    /\ nbcast = 0
    /\ ncloses = 0

\* the hub clients' variables when no client is modelled
IpcIdle ==
    /\ uid = <<>>
    /\ up = <<>>
    /\ commands = <<>>
    /\ tasks = {}
    /\ net = {}
    /\ curr_cbk = 0
    /\ callbacks = <<>>
    /\ callPc = "idle"
    /\ elapsed = 0
    /\ result = <<>>
    /\ callTo = <<>>
    /\ client_uids = {}
    /\ ncmds = 0
    /\ ncalls = 0
    /\ ndrops = 0
    /\ taskLog = {}
    /\ reportedGone = {}
    /\ sleptSettled = FALSE

\* the placement variables when no brain is modelled
BrainIdle ==
    /\ servers = <<>>
    /\ clusters = {}
    /\ waiting_for = <<>>
    /\ mainPc = "sleep"
    /\ launchTo = <<>>
    /\ srvUid = <<>>
    /\ srvUp = <<>>
    /\ srvClusters = <<>>
    /\ procs = {}
    /\ cmdq = {}
    /\ nlaunch = 0
    /\ nsrvdrops = 0
    /\ cluster_processes = <<>>
    /\ ndeaths = 0

\* the role client's variables when none is modelled
ConnIdle ==
    /\ reconnect = FALSE
    /\ clientToken = ""
    /\ connPc = "done"
    /\ connExit = ""
    /\ _ws = FALSE
    /\ stop_future = FALSE
    /\ ready_future = "pending"
    /\ attempts = 0
    /\ tstate = <<>>
    /\ cancelReq = {}
    /\ closePc = "open"
    /\ role = ""
    /\ wire = 0
    /\ written = {}
    /\ rejectedAt = 0
    /\ doneCb = FALSE

\* the handlers' variables when none is modelled
RegIdle ==
    /\ events = <<>>
    /\ handler_commands = <<>>
    /\ evName = ""
    /\ evIdx = 0
    /\ invoked = <<>>
    /\ handled = <<>>
    /\ incLog = <<>>
    /\ nevents = 0

\* no call made on the caches
NoRet == [op |-> "", arg |-> <<>>, val |-> <<>>]

CacheIdle ==
    /\ clusters_by_cluster_id = <<>>
    /\ ret = NoRet
    /\ msgLog = <<>>

\* the hub's start, stop and close when they are not modelled
LifeIdle ==
    /\ hub_stop_future = FALSE
    /\ hub_ready_future = "pending"
    /\ hubTask = <<>>
    /\ acceptPc = "serving"
    /\ acceptExit = ""
    /\ loopPc = "loop"
    /\ hubCancelReq = {}
    /\ hubClosePc = "open"
    /\ serving = 0
    /\ naccepted = 0
    /\ cluster_stop_future = FALSE

RoleIdle == ConnIdle /\ RegIdle /\ CacheIdle /\ LifeIdle

InitHub ==
    /\ RoleIdle
    /\ current_uid = 0
    /\ HubIdle
    /\ IpcIdle
    /\ BrainIdle

\* A client opens a socket and sends its first frame; websockets starts
\* _serve for it.  Connections are taken in order of their index.
ClientConnect(c, first) ==
    /\ sock[c] = "unused"
    /\ \A d \in Conn : d < c => sock[d] # "unused"
    /\ sock' = [sock EXCEPT ![c] = "open"]
    /\ pc' = [pc EXCEPT ![c] = "handshake"]
    /\ inq' = [inq EXCEPT ![c] = <<first>>]
    /\ firstOf' = [firstOf EXCEPT ![c] = first]
    /\ UNCHANGED <<current_uid, clients, uidOf, outq, closeCode, cur, todo,
                   bPc, bTodo, assigned, sentLog, dispStart, nbcast, ncloses>>
    /\ UNCHANGED <<ipcVars, brainVars, roleVars>>

\* A client writes one more frame on its open socket.
ClientSend(c, f) ==
    /\ sock[c] = "open"
    /\ Len(sentLog) < MaxFrames
    /\ inq' = [inq EXCEPT ![c] = Append(@, f)]
    /\ sentLog' = Append(sentLog, f)
    /\ UNCHANGED <<current_uid, clients, sock, pc, uidOf, outq, closeCode,
                   cur, todo, bPc, bTodo, assigned, firstOf, dispStart,
                   nbcast, ncloses>>
    /\ UNCHANGED <<ipcVars, brainVars, roleVars>>

\* The client closes its socket, or the network drops it.
ClientClose(c) ==
    /\ sock[c] = "open"
    /\ ncloses < MaxCloses
    /\ sock' = [sock EXCEPT ![c] = "closed"]
    /\ ncloses' = ncloses + 1
    /\ UNCHANGED <<current_uid, clients, pc, uidOf, inq, outq, closeCode, cur,
                   todo, bPc, bTodo, assigned, firstOf, sentLog, dispStart,
                   nbcast>>
    /\ UNCHANGED <<ipcVars, brainVars, roleVars>>

\* _serve has returned or raised: websockets closes the socket, and what was
\* buffered on it is gone
ServeEnds(c) ==
    /\ pc' = [pc EXCEPT ![c] = "done"]
    /\ sock' = [sock EXCEPT ![c] = "closed"]
    /\ inq' = [inq EXCEPT ![c] = <<>>]
    /\ outq' = [outq EXCEPT ![c] = NoneSent]

\* _handshake up to its ws.send: read the first frame, check the token,
\* take the next uid.  A frame that is no JSON object makes _serve raise.
HubHandshake(c) ==
    /\ pc[c] = "handshake"
    /\ inq[c] # <<>>
    /\ LET req == Head(inq[c]) IN
       IF req.kind # "token"
       THEN /\ ServeEnds(c)
            /\ UNCHANGED <<current_uid, uidOf, closeCode, assigned, cur>>
       ELSE IF ~TokenOk(req)
       THEN /\ ServeEnds(c)
            /\ closeCode' = [closeCode EXCEPT ![c] = INVALID_TOKEN]
            /\ UNCHANGED <<current_uid, uidOf, assigned, cur>>
       ELSE /\ current_uid' = NextUid(current_uid)
            /\ uidOf' = [uidOf EXCEPT ![c] = NextUid(current_uid)]
            /\ assigned' = Append(assigned, NextUid(current_uid))
            /\ cur' = [cur EXCEPT ![c] =
                  Frame("hello", "", NextUid(current_uid), 0, 0, clients)]
            /\ pc' = [pc EXCEPT ![c] = "reply"]
            /\ inq' = [inq EXCEPT ![c] = Tail(@)]
            /\ UNCHANGED <<sock, outq, closeCode>>
    /\ UNCHANGED <<clients, todo, bPc, bTodo, firstOf, sentLog, dispStart,
                   nbcast, ncloses>>
    /\ UNCHANGED <<ipcVars, brainVars, roleVars>>

\* _handshake's ws.send completes and _serve installs the socket (line
\* 143); on a socket closed meanwhile the send raises and _serve ends.
HubInstall(c) ==
    /\ pc[c] = "reply"
    /\ cur' = [cur EXCEPT ![c] = NoFrame]
    /\ IF sock[c] = "open"
       THEN /\ outq' = [outq EXCEPT ![c] = Sent(@, cur[c])]
            /\ clients' = Append(clients, uidOf[c])
            /\ pc' = [pc EXCEPT ![c] = "recv"]
            /\ UNCHANGED <<sock, inq>>
       ELSE /\ ServeEnds(c)
            /\ UNCHANGED clients
    /\ UNCHANGED <<current_uid, uidOf, closeCode, todo, bPc, bTodo, assigned,
                   firstOf, sentLog, dispStart, nbcast, ncloses>>
    /\ UNCHANGED <<ipcVars, brainVars, roleVars>>

\* a loop that starts a dispatch without awaiting the one still running:
\* the deliveries of the newer frame go first
HubRecvNoAwait(c) ==
    /\ pc[c] \in {"recv", "dispatch"}
    /\ inq[c] # <<>>
    /\ LET msg == Head(inq[c]) IN
       IF msg.kind = "payload"
       THEN /\ inq' = [inq EXCEPT ![c] = Tail(@)]
            /\ cur' = [cur EXCEPT ![c] = msg]
            /\ todo' = [todo EXCEPT ![c] = Deliveries(msg.to, msg) \o @]
            /\ pc' = [pc EXCEPT ![c] = "dispatch"]
            /\ dispStart' = [dispStart EXCEPT ![c] = OnlineUids]
            /\ UNCHANGED <<clients, sock, outq>>
       ELSE /\ clients' = Without(clients, uidOf[c])
            /\ ServeEnds(c)
            /\ UNCHANGED <<cur, todo, dispStart>>
    /\ UNCHANGED <<current_uid, uidOf, closeCode, bPc, bTodo, assigned,
                   firstOf, sentLog, nbcast, ncloses>>
    /\ UNCHANGED <<ipcVars, brainVars, roleVars>>

\* _serve's loop, lines 150-153: take the oldest frame.  A payload starts
\* _dispatch; a frame that does not decode raises out of the loop, the
\* finally clause removes the client and _serve ends.
HubRecv(c) ==
    /\ pc[c] = "recv"
    /\ inq[c] # <<>>
    /\ LET msg == Head(inq[c]) IN
       IF msg.kind = "payload"
       THEN /\ inq' = [inq EXCEPT ![c] = Tail(@)]
            /\ cur' = [cur EXCEPT ![c] = msg]
            /\ todo' = [todo EXCEPT ![c] = Deliveries(msg.to, msg)]
            /\ pc' = [pc EXCEPT ![c] = "dispatch"]
            /\ dispStart' = [dispStart EXCEPT ![c] = OnlineUids]
            /\ UNCHANGED <<clients, sock, outq>>
       ELSE /\ clients' = Without(clients, uidOf[c])
            /\ ServeEnds(c)
            /\ UNCHANGED <<cur, todo, dispStart>>
    /\ UNCHANGED <<current_uid, uidOf, closeCode, bPc, bTodo, assigned,
                   firstOf, sentLog, nbcast, ncloses>>
    /\ UNCHANGED <<ipcVars, brainVars, roleVars>>

\* ws.recv() raises ConnectionClosed: the finally clause removes the client.
HubRecvClosed(c) ==
    /\ pc[c] = "recv"
    /\ inq[c] = <<>>
    /\ sock[c] = "closed"
    /\ clients' = Without(clients, uidOf[c])
    /\ ServeEnds(c)
    /\ UNCHANGED <<current_uid, uidOf, closeCode, cur, todo, bPc, bTodo,
                   assigned, firstOf, sentLog, dispStart, nbcast, ncloses>>
    /\ UNCHANGED <<ipcVars, brainVars, roleVars>>

\* one iteration of the _dispatch call made by _serve; after the last one
\* _serve is back at ws.recv()
HubDispatchStep(c) ==
    /\ pc[c] = "dispatch"
    /\ IF todo[c] = <<>>
       THEN /\ pc' = [pc EXCEPT ![c] = "recv"]
            /\ cur' = [cur EXCEPT ![c] = NoFrame]
            /\ dispStart' = [dispStart EXCEPT ![c] = {}]
            /\ UNCHANGED <<outq, todo>>
       ELSE /\ outq' = DispatchOne(outq, Head(todo[c]))
            /\ todo' = [todo EXCEPT ![c] = Tail(@)]
            /\ UNCHANGED <<pc, cur, dispStart>>
    /\ UNCHANGED <<current_uid, clients, sock, uidOf, inq, closeCode, bPc,
                   bTodo, assigned, firstOf, sentLog, nbcast, ncloses>>
    /\ UNCHANGED <<ipcVars, brainVars, roleVars>>

\* _send_client_uids_loop, lines 204-207: build the presence message and
\* start dispatching it to every key of the map
HubBroadcastStart ==
    /\ bPc = "sleep"
    /\ nbcast < MaxBroadcasts
    /\ bTodo' = Deliveries(clients, Frame("internal", "", 0, 0, 0, clients))
    /\ bPc' = "dispatch"
    /\ nbcast' = nbcast + 1
    /\ UNCHANGED <<current_uid, clients, sock, pc, uidOf, inq, outq,
                   closeCode, cur, todo, assigned, firstOf, sentLog,
                   dispStart, ncloses>>
    /\ UNCHANGED <<ipcVars, brainVars, roleVars>>

\* one iteration of the broadcast's _dispatch; after the last, sleep(5)
HubBroadcastStep ==
    /\ bPc = "dispatch"
    /\ IF bTodo = <<>>
       THEN /\ bPc' = "sleep"
            /\ UNCHANGED <<outq, bTodo>>
       ELSE /\ outq' = DispatchOne(outq, Head(bTodo))
            /\ bTodo' = Tail(bTodo)
            /\ UNCHANGED bPc
    /\ UNCHANGED <<current_uid, clients, sock, pc, uidOf, inq, closeCode, cur,
                   todo, assigned, firstOf, sentLog, dispStart, nbcast,
                   ncloses>>
    /\ UNCHANGED <<ipcVars, brainVars, roleVars>>

NextHub ==
    \/ \E c \in Conn, first \in FirstFrames : ClientConnect(c, first)
    \/ \E c \in Conn, to \in RecipientLists :
          ClientSend(c, PayloadFrame(c, Len(sentLog) + 1, to))
    \/ \E c \in Conn : ClientSend(c, GarbageFrame(c, Len(sentLog) + 1))
    \/ \E c \in Conn : ClientClose(c)
    \/ \E c \in Conn : HubHandshake(c)
    \/ \E c \in Conn : HubInstall(c)
    \/ \E c \in Conn : HubRecv(c)
    \/ \E c \in Conn : HubRecvClosed(c)
    \/ \E c \in Conn : HubDispatchStep(c)
    \/ HubBroadcastStart
    \/ HubBroadcastStep

SpecHub == InitHub /\ [][NextHub]_vars

\* ============================================================ hub clients
\* The clients of the hub: client 1 calls send_command, the others answer
\* the commands they receive.  The hub between them is the forwarding that
\* SpecHub describes: a frame reaches those of its recipients that are online.
Cl == 1..NClients
Caller == 1

\* command names on the wire; the answering clients have a command function
\* for "ping" and none for "slow"
Names == {"ping", "slow"}
\* what a command function may return; 0 stands for None
Vals == {0, 1}

\* the recipients lists of a call: one client, two clients, and a client
\* together with a uid that no client holds when the run begins
ToLists == {<<2>>, <<2, 3>>, <<3, NClients + 1>>}

\* payload.py: an envelope, once per recipient the hub forwards it to.  op
\* is "Command", "Ok", "Traceback" or "NotFound"; cb the callback key; id
\* numbers the command frame that the payload is, or that it answers
Payload(op, name, cb, author, dst, val, id) ==
    [op |-> op, name |-> name, cb |-> cb, author |-> author, dst |-> dst,
     val |-> val, id |-> id]

\* what the map of a call holds for a responder
Response(kind, val) == [kind |-> kind, val |-> val]
\* callbacks.NoResponse
NoResponse == Response("NoResponse", 0)

\* some connected client holds the uid u
IpcOnline(u) == \E c \in Cl : up[c] /\ uid[c] = u

\* IpcServer._dispatch seen from the clients: of the payloads a client
\* wrote, those whose recipient is connected arrive
Forward(frames) == {f \in frames : IpcOnline(f.dst)}

\* a dispatcher that sends ResponseOk whatever the command function did
ResponsesForOkAlways(found, outcome, val) ==
    IF ~found THEN <<Response("NotFound", 0)>> ELSE <<Response("Ok", val)>>

\* a dispatcher that goes on after its ResponseNotFound and fails there
ResponsesForNoReturn(found, outcome, val) ==
    IF ~found THEN <<Response("NotFound", 0), Response("Traceback", 0)>>
    ELSE IF outcome = "returned" THEN <<Response("Ok", val)>>
    ELSE <<Response("Traceback", 0)>>

\* CommandHandler.handle_command: the responses it sends for one command.
\* found: the name is in the table; outcome: the command function
\* "returned" val or "raised"
ResponsesFor(found, outcome, val) ==
    IF ~found THEN <<Response("NotFound", 0)>>
    ELSE IF outcome = "returned" THEN <<Response("Ok", val)>>
    ELSE <<Response("Traceback", 0)>>

\* IpcClient.send_*_response: the payloads client r writes to answer the
\* command cmd; their author is the uid r holds when it writes them
ResponseFrames(r, cmd, resps) ==
    {Payload(resps[i].kind, "", cmd.cb, uid[r], cmd.author, resps[i].val,
             cmd.id) : i \in 1..Len(resps)}

\* Callback.wait, line 76: the responders without a response
Missing(cb) == {u \in Range(cb.responders) : u \notin DOMAIN cb.resps}

\* a wait that gives up as soon as the timeout has passed
TimedOutExact(e) == e > Timeout * TicksPerSecond

\* Callback.wait, line 82: (utcnow() - start).seconds > timeout, for a wait
\* that began e ticks ago; timedelta.seconds is a whole number
TimedOut(e) == (e \div TicksPerSecond) > Timeout

\* the clients after start(): connected in the order of their numbers, the
\* hub's presence message read by the caller, no call made yet
InitIpc ==
    /\ RoleIdle
    /\ HubIdle
    /\ BrainIdle
    /\ current_uid = NClients
    /\ uid = [c \in Cl |-> c]
    /\ up = [c \in Cl |-> TRUE]
    /\ commands = [c \in Cl |-> IF c = Caller THEN {} ELSE {"ping"}]
    /\ tasks = {}
    /\ net = {}
    /\ curr_cbk = 0
    /\ callbacks = <<>>
    /\ callPc = "idle"
    /\ elapsed = 0
    /\ result = <<>>
    /\ callTo = <<>>
    /\ client_uids = Cl
    /\ ncmds = 0
    /\ ncalls = 0
    /\ ndrops = 0
    /\ taskLog = {}
    /\ reportedGone = {}
    /\ sleptSettled = FALSE

\* a callback scope that leaves its record registered on exit
ScopeExitKeeps(cbs, key) == cbs

\* CallbackHandler.callback, the finally clause: del self.callbacks[cb.key]
ScopeExit(cbs, key) == [k \in DOMAIN cbs \ {key} |-> cbs[k]]

\* IpcClient.send_command up to its first look in Callback.wait: take the
\* next key, register the callback, write the command.  Without a
\* connection _send raises before anything is written: the scope of the
\* callback is left at once and the exception reaches the caller
SendCommand(to, name) ==
    /\ callPc \in {"idle", "returned", "raised"}
    /\ ncalls < MaxCalls
    /\ LET key == curr_cbk + 1
           registered == (key :> [responders |-> to, resps |-> <<>>])
                         @@ callbacks
       IN /\ curr_cbk' = key
          /\ IF up[Caller]
             THEN /\ callbacks' = registered
                  /\ net' = net \cup Forward(
                        {Payload("Command", name, key, uid[Caller], to[i], 0,
                                 ncmds + i) : i \in 1..Len(to)})
                  /\ ncmds' = ncmds + Len(to)
                  /\ callPc' = "waiting"
             ELSE /\ callbacks' = ScopeExit(registered, key)
                  /\ callPc' = "raised"
                  /\ UNCHANGED <<net, ncmds>>
    /\ ncalls' = ncalls + 1
    /\ callTo' = to
    /\ elapsed' = 0
    /\ sleptSettled' = FALSE
    /\ reportedGone' = {}
    /\ UNCHANGED <<uid, up, commands, tasks, result, client_uids, ndrops,
                   taskLog>>
    /\ UNCHANGED <<hubVars, brainVars, roleVars>>

\* one turn of the loop of Callback.wait, and on its return the rest of
\* send_command: the callback is unregistered, its map is the result
WaitPoll ==
    /\ callPc = "waiting"
    /\ LET cb == callbacks[curr_cbk]
           missing == Missing(cb)
           rest == ScopeExit(callbacks, curr_cbk)
       IN IF missing = {}
          THEN /\ result' = cb.resps
               /\ callbacks' = rest
               /\ callPc' = "returned"
               /\ UNCHANGED <<elapsed, sleptSettled>>
          ELSE IF TimedOut(elapsed)
          THEN /\ result' = [u \in missing |-> NoResponse] @@ cb.resps
               /\ callbacks' = rest
               /\ callPc' = "returned"
               /\ UNCHANGED <<elapsed, sleptSettled>>
          ELSE /\ elapsed' = elapsed + 1
               /\ sleptSettled' =
                     (sleptSettled \/ missing \subseteq reportedGone)
               /\ UNCHANGED <<result, callbacks, callPc>>
    /\ UNCHANGED <<uid, up, commands, tasks, net, curr_cbk, client_uids,
                   ncmds, ncalls, callTo, ndrops, taskLog, reportedGone>>
    /\ UNCHANGED <<hubVars, brainVars, roleVars>>

\* the caller reads a response: CallbackHandler.handle_response
CallerRecv(m) ==
    /\ m \in net
    /\ up[Caller]
    /\ m.dst = uid[Caller]
    /\ m.op # "Command"
    /\ net' = net \ {m}
    /\ callbacks' =
          IF m.cb \in DOMAIN callbacks
          THEN [callbacks EXCEPT ![m.cb].resps =
                   (m.author :> Response(m.op, m.val)) @@ @]
          ELSE callbacks
    /\ UNCHANGED <<uid, up, commands, tasks, curr_cbk, callPc, elapsed,
                   result, client_uids, ncmds, ncalls, callTo, ndrops,
                   taskLog, reportedGone, sleptSettled>>
    /\ UNCHANGED <<hubVars, brainVars, roleVars>>

\* the caller reads the hub's presence message: IpcClient._update_clients
PresenceUpdate ==
    /\ up[Caller]
    /\ LET new == {uid[c] : c \in {d \in Cl : up[d]}}
       IN /\ new # client_uids
          /\ client_uids' = new
          /\ reportedGone' = reportedGone \cup (client_uids \ new)
    /\ UNCHANGED <<uid, up, commands, tasks, net, curr_cbk, callbacks, callPc,
                   elapsed, result, ncmds, ncalls, callTo, ndrops, taskLog,
                   sleptSettled>>
    /\ UNCHANGED <<hubVars, brainVars, roleVars>>

\* a command of the caller reaches client r by a send whose wait is not
\* followed: IpcClient._send writes payload.Command for the recipient r
EnvCommand(r, name) ==
    /\ ncmds < MaxCmds
    /\ up[Caller]
    /\ net' = net \cup Forward(
          {Payload("Command", name, ncmds + 1, uid[Caller], uid[r], 0,
                   ncmds + 1)})
    /\ ncmds' = ncmds + 1
    /\ UNCHANGED <<uid, up, commands, tasks, curr_cbk, callbacks, callPc,
                   elapsed, result, client_uids, ncalls, callTo, ndrops,
                   taskLog, reportedGone, sleptSettled>>
    /\ UNCHANGED <<hubVars, brainVars, roleVars>>

\* client r reads the command m: CommandHandler.handle_command up to its
\* first suspension.  A name without a command function is answered with
\* ResponseNotFound at once; otherwise the command function is entered
HandleCommand(r, m) ==
    /\ m \in net
    /\ up[r]
    /\ m.dst = uid[r]
    /\ m.op = "Command"
    /\ IF m.name \notin commands[r]
       THEN LET sent == ResponseFrames(r, m, ResponsesFor(FALSE, "none", 0))
            IN /\ net' = (net \ {m}) \cup Forward(sent)
               /\ taskLog' = taskLog \cup
                     {[id |-> m.id, cl |-> r, found |-> FALSE,
                       outcome |-> "none", val |-> 0, up |-> TRUE,
                       cmd |-> m, sent |-> sent]}
               /\ UNCHANGED tasks
       ELSE /\ net' = net \ {m}
            /\ tasks' = tasks \cup {[cl |-> r, cmd |-> m]}
            /\ UNCHANGED taskLog
    /\ UNCHANGED <<uid, up, commands, curr_cbk, callbacks, callPc, elapsed,
                   result, client_uids, ncmds, ncalls, callTo, ndrops,
                   reportedGone, sleptSettled>>
    /\ UNCHANGED <<hubVars, brainVars, roleVars>>

\* the rest of handle_command for the task t once its command function is
\* over: the response is written, unless the client has no connection, in
\* which case _send raises and nothing is written
HandlerEnds(t, outcome, val) ==
    /\ t \in tasks
    /\ LET sent == IF up[t.cl]
                   THEN ResponseFrames(t.cl, t.cmd,
                                       ResponsesFor(TRUE, outcome, val))
                   ELSE {}
       IN /\ net' = net \cup Forward(sent)
          /\ taskLog' = taskLog \cup
                {[id |-> t.cmd.id, cl |-> t.cl, found |-> TRUE,
                  outcome |-> outcome, val |-> val, up |-> up[t.cl],
                  cmd |-> t.cmd, sent |-> sent]}
    /\ tasks' = tasks \ {t}
    /\ UNCHANGED <<uid, up, commands, curr_cbk, callbacks, callPc, elapsed,
                   result, client_uids, ncmds, ncalls, callTo, ndrops,
                   reportedGone, sleptSettled>>
    /\ UNCHANGED <<hubVars, brainVars, roleVars>>

\* handle_command, lines 92 and 98-101: the command function returns val
HandlerReturns(t, val) == HandlerEnds(t, "returned", val)

\* handle_command, lines 93-97: the command function raises
HandlerRaises(t) == HandlerEnds(t, "raised", 0)

\* the connection of client r breaks: IpcClient._start, the finally block.
\* What the hub had forwarded to it and it had not read is lost
ClientDrop(r) ==
    /\ up[r]
    /\ ndrops < MaxDrops
    /\ up' = [up EXCEPT ![r] = FALSE]
    /\ net' = {f \in net : f.dst # uid[r]}
    /\ ndrops' = ndrops + 1
    /\ UNCHANGED <<uid, commands, tasks, curr_cbk, callbacks, callPc, elapsed,
                   result, client_uids, ncmds, ncalls, callTo, taskLog,
                   reportedGone, sleptSettled>>
    /\ UNCHANGED <<hubVars, brainVars, roleVars>>

\* client r connects again: IpcClient._start goes round its loop, the hub's
\* _handshake hands out the next uid, IpcClient._handshake stores it
ClientReconnect(r) ==
    /\ ~up[r]
    /\ current_uid' = NextUid(current_uid)
    /\ uid' = [uid EXCEPT ![r] = NextUid(current_uid)]
    /\ up' = [up EXCEPT ![r] = TRUE]
    /\ UNCHANGED <<commands, tasks, net, curr_cbk, callbacks, callPc, elapsed,
                   result, client_uids, ncmds, ncalls, callTo, ndrops,
                   taskLog, reportedGone, sleptSettled>>
    /\ UNCHANGED <<hubRest, brainVars, roleVars>>

\* the client whose dispatcher SpecCmd follows
Dispatcher == 2

NextCmd ==
    \/ \E name \in Names : EnvCommand(Dispatcher, name)
    \/ \E m \in net : HandleCommand(Dispatcher, m)
    \/ \E t \in tasks, val \in Vals : HandlerReturns(t, val)
    \/ \E t \in tasks : HandlerRaises(t)
    \/ ClientDrop(Dispatcher)
    \/ ClientReconnect(Dispatcher)

SpecCmd == InitIpc /\ [][NextCmd]_vars

NextIpc ==
    \/ \E to \in ToLists, name \in Names : SendCommand(to, name)
    \/ WaitPoll
    \/ \E m \in net : CallerRecv(m)
    \/ PresenceUpdate
    \/ \E r \in Cl, m \in net : HandleCommand(r, m)
    \/ \E t \in tasks, val \in Vals : HandlerReturns(t, val)
    \/ \E t \in tasks : HandlerRaises(t)
    \/ \E r \in Cl : ClientDrop(r)
    \/ \E r \in Cl : ClientReconnect(r)

SpecIpc == InitIpc /\ [][NextIpc]_vars

\* ============================================================== placement
\* The brain (uid 1, connected throughout), its servers and the cluster
\* processes they start.  Events reach every connected client at once.
Srv == 1..NServers
BrainUid == 1

\* Brain.total_clusters and Brain.total_shards
total_clusters == NServers * ClustersPerServer
total_shards == total_clusters * ShardsPerCluster

\* launch_cluster commands the brain sends in one run: one for every
\* cluster and one more for every process that exits
MaxLaunches == total_clusters + MaxDeaths

\* min(shards)
Smallest(S) == CHOOSE x \in S : \A y \in S : x <= y

\* the k largest of S
LastOf(S, k) == {x \in S : Cardinality({y \in S : y > x}) < k}

\* a slice of a list that holds S in another order: every other element
EveryOtherOf(S, k) ==
    {x \in S : \E i \in 0..(k - 1) : Cardinality({y \in S : y < x}) = 2 * i}

\* list(S)[0:k] for a set of small non-negative ints, which CPython
\* iterates in ascending order: the k smallest
FirstOf(S, k) == {x \in S : Cardinality({y \in S : y < x}) < k}

\* IpcClient.server_uids for the cache srvs
ServerUids(srvs) == {srvs[i].uid : i \in 1..Len(srvs)}

\* an all_shards that takes the cluster registry's word alone
AllShardsOfRegistry(srvs, cls) ==
    UNION {c.shard_ids : c \in {d \in cls : d.ready}}

\* an all_shards that counts the clusters that are not ready too
AllShardsReadyOrNot(srvs, cls) ==
    UNION {c.shard_ids : c \in
             {d \in cls :
                 \E i \in 1..Len(srvs) :
                    /\ srvs[i].uid = d.server_uid
                    /\ d.uid \in srvs[i].cluster_uids}}

\* IpcClient.all_shards for the caches srvs and cls: the shards of the
\* clusters that are ready and listed by their server
AllShards(srvs, cls) ==
    UNION {c.shard_ids : c \in
             {d \in cls :
                 /\ d.ready
                 /\ \E i \in 1..Len(srvs) :
                       /\ srvs[i].uid = d.server_uid
                       /\ d.uid \in srvs[i].cluster_uids}}

\* a getter that does not look at the server registry
WaitingForAnyServer(wf, srvs, cls) ==
    IF wf = <<>> THEN <<>>
    ELSE IF wf[2] \in AllShards(srvs, cls) THEN <<>>
    ELSE wf

\* the waiting_for property of Brain: what its getter leaves in
\* _waiting_for and returns
WaitingFor(wf, srvs, cls) ==
    IF wf = <<>> THEN <<>>
    ELSE IF wf[1] \notin ServerUids(srvs) THEN <<>>
    ELSE IF wf[2] \in AllShards(srvs, cls) THEN <<>>
    ELSE wf

\* the servers of the cache with room for a cluster, the last one first
WithRoomLastFirst(srvs) ==
    LET room == SelectSeq(srvs,
                   LAMBDA sv : Cardinality(sv.cluster_uids) < ClustersPerServer)
    IN [i \in 1..Len(room) |-> room[Len(room) + 1 - i]]

\* the servers of the cache with room for a cluster, in the cache's order
WithRoom(srvs) ==
    SelectSeq(srvs,
              LAMBDA sv : Cardinality(sv.cluster_uids) < ClustersPerServer)

\* Brain._get_next_cluster_to_launch: <<>> for None, else the server uid
\* and the shards
NextClusterToLaunch(wf, srvs, cls) ==
    IF srvs = <<>> THEN <<>>
    ELSE IF \E c \in cls : ~c.ready THEN <<>>
    ELSE IF WaitingFor(wf, srvs, cls) # <<>> THEN <<>>
    ELSE IF WithRoom(srvs) = <<>> THEN <<>>
    ELSE IF (0..(total_shards - 1)) \ AllShards(srvs, cls) = {} THEN <<>>
    ELSE <<Head(WithRoom(srvs)).uid,
           FirstOf((0..(total_shards - 1)) \ AllShards(srvs, cls),
                   ShardsPerCluster)>>

\* Cluster.shards of the process p, the shards its bot has started: start()
\* leaves the bot's own start commented out, so none ever is
shards(p) == {}

\* Cluster.ready
ClusterReady == TRUE

\* cls with the entry of info.uid set to info: dict[uid] = info
PutInfo(cls, info) == {c \in cls : c.uid # info.uid} \cup {info}

\* srvs[info.uid] = info on a dict kept in the order of insertion
PutServer(srvs, info) ==
    IF info.uid \in ServerUids(srvs)
    THEN [i \in 1..Len(srvs) |->
             IF srvs[i].uid = info.uid THEN info ELSE srvs[i]]
    ELSE Append(srvs, info)

\* the uids of the connected clients, as the hub's presence message lists
\* them
BrainOnline ==
    {BrainUid} \cup {srvUid[s] : s \in {x \in Srv : srvUp[x]}}
               \cup {p.uid : p \in {q \in procs : q.alive /\ q.uid # 0}}

\* the brain and its servers after start(): connected, the brain first, no
\* event read yet
InitBrain ==
    /\ RoleIdle
    /\ HubIdle
    /\ IpcIdle
    /\ current_uid = 1 + NServers
    /\ servers = <<>>
    /\ clusters = {}
    /\ waiting_for = <<>>
    /\ mainPc = "sleep"
    /\ launchTo = <<>>
    /\ srvUid = [s \in Srv |-> 1 + s]
    /\ srvUp = [s \in Srv |-> TRUE]
    /\ srvClusters = [s \in Srv |-> {}]
    /\ procs = {}
    /\ cmdq = {}
    /\ nlaunch = 0
    /\ nsrvdrops = 0
    /\ cluster_processes = [s \in Srv |-> {}]
    /\ ndeaths = 0

\* one turn of Brain._main_loop after its sleep, up to send_command's wait:
\* nothing to launch, or the launch_cluster command is written
MainLoopTurn ==
    /\ mainPc = "sleep"
    /\ LET to_launch == NextClusterToLaunch(waiting_for, servers, clusters)
       IN IF to_launch = <<>>
          THEN /\ waiting_for' =
                     IF servers = <<>> \/ \E c \in clusters : ~c.ready
                     THEN waiting_for
                     ELSE WaitingFor(waiting_for, servers, clusters)
               /\ waiting_for' # waiting_for
               /\ UNCHANGED <<mainPc, launchTo, cmdq, nlaunch>>
          ELSE /\ nlaunch < MaxLaunches
               /\ waiting_for' = <<>>
               /\ mainPc' = "calling"
               /\ launchTo' = to_launch
               /\ nlaunch' = nlaunch + 1
               /\ cmdq' = cmdq \cup
                     {[id |-> nlaunch + 1, dst |-> to_launch[1],
                       shard_ids |-> to_launch[2],
                       shard_count |-> total_shards] :
                          x \in {y \in {to_launch[1]} : y \in BrainOnline}}
    /\ UNCHANGED <<servers, clusters, srvUid, srvUp, srvClusters, procs,
                   nsrvdrops,
                   cluster_processes, ndeaths>>
    /\ UNCHANGED <<hubVars, ipcVars, roleVars>>

\* send_command returns, with the server's response or without, and
\* _main_loop notes what it waits for
CallReturns ==
    /\ mainPc = "calling"
    /\ waiting_for' = <<launchTo[1], Smallest(launchTo[2])>>
    /\ mainPc' = "sleep"
    /\ launchTo' = <<>>
    /\ UNCHANGED <<servers, clusters, srvUid, srvUp, srvClusters, procs, cmdq,
                   nlaunch, nsrvdrops,
                   cluster_processes, ndeaths>>
    /\ UNCHANGED <<hubVars, ipcVars, roleVars>>

\* server.start_cluster: server s reads the command c and starts a process
ServerLaunch(s, c) ==
    /\ c \in cmdq
    /\ srvUp[s]
    /\ c.dst = srvUid[s]
    /\ cmdq' = cmdq \ {c}
    /\ procs' = procs \cup
          {[id |-> c.id, srv |-> s, server_uid |-> srvUid[s],
            shard_ids |-> c.shard_ids, shard_count |-> c.shard_count,
            uid |-> 0, alive |-> TRUE, diedLive |-> FALSE, diedAt |-> 0]}
    /\ cluster_processes' = [cluster_processes EXCEPT ![s] =
          {e \in @ : e.key # Smallest(c.shard_ids)} \cup
          {[key |-> Smallest(c.shard_ids), id |-> c.id]}]
    /\ UNCHANGED <<servers, clusters, waiting_for, mainPc, launchTo, srvUid,
                   srvUp, srvClusters, nlaunch, nsrvdrops, ndeaths>>
    /\ UNCHANGED <<hubVars, ipcVars, roleVars>>

\* Cluster.start: the process p connects to the hub and is given a uid
ClusterConnect(p) ==
    /\ p \in procs
    /\ p.alive
    /\ p.uid = 0
    /\ current_uid' = NextUid(current_uid)
    /\ procs' = (procs \ {p}) \cup {[p EXCEPT !.uid = NextUid(current_uid)]}
    /\ UNCHANGED <<servers, clusters, waiting_for, mainPc, launchTo, srvUid,
                   srvUp, srvClusters, cmdq, nlaunch, nsrvdrops,
                   cluster_processes, ndeaths>>
    /\ UNCHANGED <<hubRest, ipcVars, roleVars>>

\* Cluster._broadcast_cluster_info_loop, one turn, and update_cluster_info
\* in the brain and in the connected servers
ClusterInfoEvent(p) ==
    /\ p \in procs
    /\ p.alive
    /\ p.uid # 0
    /\ LET cinfo == [uid |-> p.uid, server_uid |-> p.server_uid,
                     shard_ids |-> p.shard_ids, ready |-> ClusterReady]
       IN /\ clusters' = PutInfo(clusters, cinfo)
          /\ srvClusters' = [s \in Srv |->
                IF srvUp[s] THEN PutInfo(srvClusters[s], cinfo)
                ELSE srvClusters[s]]
    /\ <<clusters', srvClusters'>> # <<clusters, srvClusters>>
    /\ UNCHANGED <<servers, waiting_for, mainPc, launchTo, srvUid, srvUp,
                   procs, cmdq, nlaunch, nsrvdrops,
                   cluster_processes, ndeaths>>
    /\ UNCHANGED <<hubVars, ipcVars, roleVars>>

\* Server._broadcast_server_info_loop, one turn, and update_server_info in
\* the brain
ServerInfoEvent(s) ==
    /\ srvUp[s]
    /\ servers' = PutServer(servers,
          [uid |-> srvUid[s],
           cluster_uids |-> {c.uid : c \in
                {d \in srvClusters[s] : d.server_uid = srvUid[s]}}])
    /\ servers' # servers
    /\ UNCHANGED <<clusters, waiting_for, mainPc, launchTo, srvUid, srvUp,
                   srvClusters, procs, cmdq, nlaunch, nsrvdrops,
                   cluster_processes, ndeaths>>
    /\ UNCHANGED <<hubVars, ipcVars, roleVars>>

\* the brain reads the hub's presence message: IpcClient._update_clients
BrainPresence ==
    /\ servers' = SelectSeq(servers, LAMBDA sv : sv.uid \in BrainOnline)
    /\ clusters' = {c \in clusters : c.uid \in BrainOnline}
    /\ <<servers', clusters'>> # <<servers, clusters>>
    /\ UNCHANGED <<waiting_for, mainPc, launchTo, srvUid, srvUp, srvClusters,
                   procs, cmdq, nlaunch, nsrvdrops,
                   cluster_processes, ndeaths>>
    /\ UNCHANGED <<hubVars, ipcVars, roleVars>>

\* the connection of server s breaks: IpcClient._start, the finally block,
\* clears its caches; the commands on their way to it are lost
ServerDrop(s) ==
    /\ srvUp[s]
    /\ nsrvdrops < MaxServerDrops
    /\ srvUp' = [srvUp EXCEPT ![s] = FALSE]
    /\ srvClusters' = [srvClusters EXCEPT ![s] = {}]
    /\ cmdq' = {c \in cmdq : c.dst # srvUid[s]}
    /\ nsrvdrops' = nsrvdrops + 1
    /\ UNCHANGED <<servers, clusters, waiting_for, mainPc, launchTo, srvUid,
                   procs, nlaunch,
                   cluster_processes, ndeaths>>
    /\ UNCHANGED <<hubVars, ipcVars, roleVars>>

\* server s connects again and is given the next uid
ServerReconnect(s) ==
    /\ ~srvUp[s]
    /\ current_uid' = NextUid(current_uid)
    /\ srvUid' = [srvUid EXCEPT ![s] = NextUid(current_uid)]
    /\ srvUp' = [srvUp EXCEPT ![s] = TRUE]
    /\ UNCHANGED <<servers, clusters, waiting_for, mainPc, launchTo,
                   srvClusters, procs, cmdq, nlaunch, nsrvdrops,
                   cluster_processes, ndeaths>>
    /\ UNCHANGED <<hubRest, ipcVars, roleVars>>

NextBrain ==
    \/ MainLoopTurn
    \/ CallReturns
    \/ \E s \in Srv, c \in cmdq : ServerLaunch(s, c)
    \/ \E p \in procs : ClusterConnect(p)
    \/ \E p \in procs : ClusterInfoEvent(p)
    \/ \E s \in Srv : ServerInfoEvent(s)
    \/ BrainPresence
    \/ \E s \in Srv : ServerDrop(s)
    \/ \E s \in Srv : ServerReconnect(s)

SpecBrain == InitBrain /\ [][NextBrain]_vars

\* ----------------------------------------------- placement without losses
\* The same brain, servers and clusters while every connection holds and
\* every process stays alive.  The loops of the code turn once a second
\* and the hub delivers what it is given, so every step that stays possible
\* is taken.
NextLaunch ==
    \/ MainLoopTurn
    \/ CallReturns
    \/ \E s \in Srv, c \in cmdq : ServerLaunch(s, c)
    \/ \E p \in procs : ClusterConnect(p)
    \/ \E p \in procs : ClusterInfoEvent(p)
    \/ \E s \in Srv : ServerInfoEvent(s)

FairLaunch ==
    /\ WF_vars(MainLoopTurn)
    /\ WF_vars(CallReturns)
    /\ WF_vars(\E s \in Srv, c \in cmdq : ServerLaunch(s, c))
    /\ WF_vars(\E p \in procs : ClusterConnect(p))
    /\ WF_vars(\E p \in procs : ClusterInfoEvent(p))
    /\ \A s \in Srv : WF_vars(ServerInfoEvent(s))

SpecLaunch == InitBrain /\ [][NextLaunch]_vars /\ FairLaunch

\* ------------------------------------------- placement with process exits
\* the cluster of process p is live for the brain: in its registry, ready
\* and listed by its server, as IpcClient.all_shards counts it
IsLive(p) ==
    \E d \in clusters :
        /\ d.uid = p.uid
        /\ d.ready
        /\ \E i \in 1..Len(servers) :
              /\ servers[i].uid = d.server_uid
              /\ d.uid \in servers[i].cluster_uids

\* The cluster process p exits (diedLive and diedAt note for the record
\* whether it was live then and how many launches had been sent): its
\* socket closes and the hub stops
\* listing its uid
ClusterDies(p) ==
    /\ p \in procs
    /\ p.alive
    /\ ndeaths < MaxDeaths
    /\ procs' = (procs \ {p}) \cup
          {[p EXCEPT !.alive = FALSE, !.diedLive = IsLive(p),
                     !.diedAt = nlaunch]}
    /\ ndeaths' = ndeaths + 1
    /\ UNCHANGED <<servers, clusters, waiting_for, mainPc, launchTo, srvUid,
                   srvUp, srvClusters, cmdq, nlaunch, nsrvdrops,
                   cluster_processes>>
    /\ UNCHANGED <<hubVars, ipcVars, roleVars>>

\* server s reads the hub's presence message: IpcClient._update_clients
ServerPresence(s) ==
    /\ srvUp[s]
    /\ srvClusters' = [srvClusters EXCEPT ![s] =
          {c \in @ : c.uid \in BrainOnline}]
    /\ srvClusters' # srvClusters
    /\ UNCHANGED <<servers, clusters, waiting_for, mainPc, launchTo, srvUid,
                   srvUp, procs, cmdq, nlaunch, nsrvdrops,
                   cluster_processes, ndeaths>>
    /\ UNCHANGED <<hubVars, ipcVars, roleVars>>

\* what the brain, the servers and the live processes do by themselves
ReapProgress ==
    \/ MainLoopTurn
    \/ CallReturns
    \/ \E s \in Srv, c \in cmdq : ServerLaunch(s, c)
    \/ \E p \in procs : ClusterConnect(p)
    \/ \E p \in procs : ClusterInfoEvent(p)
    \/ \E s \in Srv : ServerInfoEvent(s)
    \/ BrainPresence
    \/ \E s \in Srv : ServerPresence(s)

NextReap ==
    \/ ReapProgress
    \/ \E p \in procs : ClusterDies(p)

SpecReap == InitBrain /\ [][NextReap]_vars

\* ============================================================ role client
\* One role (server, cluster or brain) with its IpcClient against the hub:
\* the _start task that connects, the tasks that handle received messages,
\* the role's own broadcast loop, and close() of the role.
ConnTask == 0
LoopTask == 1
Handlers == 2..(1 + MaxHandlers)
\* the tasks of IpcClient.tasks and the tasks of the role's own manager
IpcTasks == {ConnTask} \cup Handlers
RoleTasks == {LoopTask}
Tasks == IpcTasks \cup RoleTasks

\* the close codes a connection that reached the recv loop can end with:
\* the hub's handler returned, or the connection was lost
ReadyCloseCodes == {1000, 1006}
\* websockets raises ConnectionClosedOK for these, ConnectionClosedError
\* for the others
ClosedOK(code) == code \in {1000, 1001}

\* a handshake whose exception is caught like one of the recv loop: the
\* client goes on as after a lost connection
AfterHandshakeCaught(rc) ==
    IF rc THEN [pc |-> "connecting", exit |-> ""]
    ELSE [pc |-> "done", exit |-> "return"]

\* _start, line 315: _handshake is awaited outside the try statement, so
\* the ConnectionClosedError of ws.recv() ends the task
AfterHandshakeRaises(rc) == [pc |-> "done", exit |-> "ConnectionClosedError"]

\* a _start that treats its own cancellation like a lost connection
AfterRecvLoopNoCancel(how, code, rc) ==
    IF rc THEN [pc |-> "connecting", exit |-> ""]
    ELSE [pc |-> "done", exit |-> "return"]

\* _start, lines 319-342: what follows the end of _recv_loop.  how is
\* "closed" (the connection ended with code) or "cancelled"; rc is the
\* local reconnect.  The return inside finally drops an exception on its
\* way out.
AfterRecvLoop(how, code, rc) ==
    LET raised == IF how = "closed" /\ ~ClosedOK(code)
                     /\ code = INVALID_TOKEN
                  THEN "InvalidIpcToken" ELSE ""
        rc2 == IF how = "cancelled" THEN FALSE ELSE rc
    IN IF rc2
       THEN IF raised = "" THEN [pc |-> "connecting", exit |-> ""]
            ELSE [pc |-> "done", exit |-> raised]
       ELSE [pc |-> "done", exit |-> "return"]

\* the roles: Server, Brain and Cluster, and a BaseClient
Roles == {"server", "brain", "cluster", "client"}

\* a role whose IpcClient keeps the default reconnect=True
ReconnectDefault(r) == {TRUE}

\* the reconnect argument the role gives its IpcClient: Server and Brain
\* leave the default True, Cluster passes False, BaseClient its own argument
ReconnectOf(r) ==
    IF r \in {"server", "brain"} THEN {TRUE}
    ELSE IF r = "cluster" THEN {FALSE}
    ELSE BOOLEAN

\* a loop that catches ConnectionClosed in every role and goes on
OnConnectionClosedCaught(r) == "continue"

\* what the role's loop does when its send_event raises ConnectionClosed:
\* Server and BaseClient catch it and go on to the sleep, Cluster returns,
\* Brain has no try statement and the exception ends the task
OnConnectionClosed(r) ==
    IF r = "brain" THEN "raise"
    ELSE IF r = "cluster" THEN "return"
    ELSE "continue"

\* a cancel_all that cancels nothing
CancelNone(T) == {}

\* TaskManager.cancel_all on the tasks T of one manager: Task.cancel() on
\* every task that has not ended
CancelAll(T) == {t \in T : tstate[t] = "running"}

\* IpcClient.stop on the two futures
Stopped(rf) == IF rf = "pending" THEN "cancelled" ELSE rf

\* a frame written by task t now
Written(t) ==
    written \cup {[by |-> t, n |-> Cardinality(written) + 1,
                   closed |-> closePc = "closed"]}

Runs(t) == tstate[t] = "running" /\ t \notin cancelReq

\* the role after start(): both futures fresh, the _start task and the
\* role's loop created, nothing run yet
RoleStarted ==
    /\ RegIdle
    /\ CacheIdle
    /\ LifeIdle
    /\ HubIdle
    /\ IpcIdle
    /\ BrainIdle
    /\ role \in Roles
    /\ reconnect \in ReconnectOf(role)
    /\ clientToken \in {token, "WRONG"}
    /\ connPc = "connecting"
    /\ connExit = ""
    /\ _ws = FALSE
    /\ stop_future = FALSE
    /\ ready_future = "pending"
    /\ attempts = 0
    /\ tstate = [t \in Tasks |-> IF t \in Handlers THEN "none" ELSE "running"]
    /\ cancelReq = {}
    /\ closePc = "open"
    /\ wire = 0
    /\ written = {}
    /\ rejectedAt = 0
    /\ doneCb = FALSE

\* the role is the first client of its hub
InitConn == RoleStarted /\ current_uid = 0

\* _start: client.connect yields a connection and _handshake sends the
\* token
ConnConnect ==
    /\ Runs(ConnTask)
    /\ connPc = "connecting"
    /\ attempts < MaxAttempts
    /\ attempts' = attempts + 1
    /\ connPc' = "handshake"
    /\ written' = Written(ConnTask)
    /\ UNCHANGED <<role, wire, reconnect, clientToken, connExit, _ws,
                   stop_future, ready_future, tstate, cancelReq, closePc,
                   rejectedAt, doneCb>>
    /\ UNCHANGED <<hubVars, ipcVars, brainVars, regVars, cacheVars,
                   lifeVars>>

\* _handshake, ws.recv(): the hub's answer to the token, the uid message
\* or the close with INVALID_TOKEN, and the lines of _start that follow,
\* on the connection's own variables
HandshakeStep ==
    /\ Runs(ConnTask)
    /\ connPc = "handshake"
    /\ IF TokenOk(TokenFrame(clientToken))
       THEN /\ current_uid' = NextUid(current_uid)
            /\ IF ready_future = "pending"
               THEN /\ _ws' = TRUE
                    /\ ready_future' = "done"
                    /\ connPc' = "ready"
                    /\ UNCHANGED <<connExit, tstate>>
               ELSE /\ _ws' = TRUE
                    /\ connPc' = "done"
                    /\ connExit' = "InvalidStateError"
                    /\ tstate' = [tstate EXCEPT ![ConnTask] = "done"]
                    /\ UNCHANGED ready_future
            /\ UNCHANGED rejectedAt
       ELSE /\ connPc' = AfterHandshakeRaises(reconnect).pc
            /\ connExit' = AfterHandshakeRaises(reconnect).exit
            /\ tstate' = [tstate EXCEPT ![ConnTask] =
                  IF AfterHandshakeRaises(reconnect).pc = "done"
                  THEN "done" ELSE @]
            /\ rejectedAt' = attempts
            /\ UNCHANGED <<current_uid, _ws, ready_future>>
    /\ UNCHANGED <<role, wire, reconnect, clientToken, stop_future, attempts,
                   cancelReq, closePc, written, doneCb>>

\* the same step of a client whose uid and caches are left out
ConnHandshake ==
    /\ HandshakeStep
    /\ UNCHANGED <<hubRest, ipcVars, brainVars, regVars, cacheVars,
                   lifeVars>>

\* _start from the end of _recv_loop on, the finally block included
LeaveReady(how, code) ==
    /\ connPc' = AfterRecvLoop(how, code, reconnect).pc
    /\ connExit' = AfterRecvLoop(how, code, reconnect).exit
    /\ tstate' = [tstate EXCEPT ![ConnTask] =
          IF AfterRecvLoop(how, code, reconnect).pc = "done"
          THEN "done" ELSE @]
    /\ _ws' = FALSE
    /\ ready_future' = "pending"
    /\ wire' = 0

\* the connection ends with the close code: the hub's handler returned, or
\* the connection was lost.  _start is not resumed yet and _ws is still set
WireCloses(code) ==
    /\ connPc = "ready"
    /\ wire = 0
    /\ wire' = code
    /\ UNCHANGED <<role, reconnect, clientToken, connPc, connExit, _ws,
                   stop_future, ready_future, attempts, tstate, cancelReq,
                   closePc, written, rejectedAt, doneCb>>
    /\ UNCHANGED <<hubVars, ipcVars, brainVars, regVars, cacheVars,
                   lifeVars>>

\* _start is resumed on the connection that ended with the close code:
\* _recv_loop ends or raises; on the connection's own variables
ClosedStep(code) ==
    /\ Runs(ConnTask)
    /\ connPc = "ready"
    /\ wire = code
    /\ LeaveReady("closed", code)
    /\ UNCHANGED <<role, reconnect, clientToken, stop_future, attempts,
                   cancelReq, closePc, written, rejectedAt, doneCb>>

ConnClosed(code) ==
    /\ ClosedStep(code)
    /\ UNCHANGED <<hubVars, ipcVars, brainVars, regVars, cacheVars,
                   lifeVars>>

\* the _start task is resumed after Task.cancel(): CancelledError is
\* raised at its await; on the connection's own variables
CancelledStep ==
    /\ tstate[ConnTask] = "running"
    /\ ConnTask \in cancelReq
    /\ IF connPc = "ready"
       THEN LeaveReady("cancelled", 0)
       ELSE /\ connPc' = "done"
            /\ connExit' = "CancelledError"
            /\ tstate' = [tstate EXCEPT ![ConnTask] = "done"]
            /\ UNCHANGED <<_ws, ready_future, wire>>
    /\ UNCHANGED <<role, reconnect, clientToken, stop_future, attempts,
                   cancelReq, closePc, written, rejectedAt, doneCb>>

ConnCancelled ==
    /\ CancelledStep
    /\ UNCHANGED <<hubVars, ipcVars, brainVars, regVars, cacheVars,
                   lifeVars>>

\* start(): the done callback of the _start task, which calls stop()
ConnDoneCallback ==
    /\ tstate[ConnTask] = "done"
    /\ ~doneCb
    /\ doneCb' = TRUE
    /\ stop_future' = TRUE
    /\ ready_future' = Stopped(ready_future)
    /\ UNCHANGED <<role, wire, reconnect, clientToken, connPc, connExit, _ws,
                   attempts, tstate, cancelReq, closePc, written, rejectedAt>>
    /\ UNCHANGED <<hubVars, ipcVars, brainVars, regVars, cacheVars,
                   lifeVars>>

\* _recv_loop reads a payload and creates the task h for _handle_message
RecvMessage(h) ==
    /\ Runs(ConnTask)
    /\ connPc = "ready"
    /\ tstate[h] = "none"
    /\ tstate' = [tstate EXCEPT ![h] = "running"]
    /\ UNCHANGED <<role, wire, reconnect, clientToken, connPc, connExit, _ws,
                   stop_future, ready_future, attempts, cancelReq, closePc,
                   written, rejectedAt, doneCb>>
    /\ UNCHANGED <<hubVars, ipcVars, brainVars, regVars, cacheVars,
                   lifeVars>>

\* _handle_message in task h answers: _raw_send writes the frame, or its
\* assertion fails when _ws is None, or ws.send raises ConnectionClosed on
\* a connection that has ended
HandlerSend(h) ==
    /\ Runs(h)
    /\ written' = IF _ws /\ wire = 0 THEN Written(h) ELSE written
    /\ tstate' = [tstate EXCEPT ![h] = "done"]
    /\ UNCHANGED <<role, wire, reconnect, clientToken, connPc, connExit, _ws,
                   stop_future, ready_future, attempts, cancelReq, closePc,
                   rejectedAt, doneCb>>
    /\ UNCHANGED <<hubVars, ipcVars, brainVars, regVars, cacheVars,
                   lifeVars>>

\* the role's loop, one turn: wait_until_ready, then send_event.  A
\* cancelled ready_future ends the task with CancelledError; on a
\* connection that has ended ws.send raises ConnectionClosed, and the loop
\* goes on to its sleep or ends, as its role has it.
LoopTurn ==
    /\ Runs(LoopTask)
    /\ ready_future # "pending"
    /\ IF ready_future = "done"
       THEN /\ Cardinality({f \in written : f.by = LoopTask}) < MaxSends
            /\ written' = IF _ws /\ wire = 0 THEN Written(LoopTask)
                           ELSE written
            /\ tstate' = [tstate EXCEPT ![LoopTask] =
                  IF ~_ws THEN "done"
                  ELSE IF wire = 0 THEN @
                  ELSE IF OnConnectionClosed(role) = "continue" THEN @
                  ELSE "done"]
       ELSE /\ tstate' = [tstate EXCEPT ![LoopTask] = "done"]
            /\ UNCHANGED written
    /\ UNCHANGED <<role, wire, reconnect, clientToken, connPc, connExit, _ws,
                   stop_future, ready_future, attempts, cancelReq, closePc,
                   rejectedAt, doneCb>>
    /\ UNCHANGED <<hubVars, ipcVars, brainVars, regVars, cacheVars,
                   lifeVars>>

\* a task other than _start is resumed after Task.cancel() and ends
TaskCancelled(t) ==
    /\ t \in Tasks \ {ConnTask}
    /\ tstate[t] = "running"
    /\ t \in cancelReq
    /\ tstate' = [tstate EXCEPT ![t] = "done"]
    /\ UNCHANGED <<role, wire, reconnect, clientToken, connPc, connExit, _ws,
                   stop_future, ready_future, attempts, cancelReq, closePc,
                   written, rejectedAt, doneCb>>
    /\ UNCHANGED <<hubVars, ipcVars, brainVars, regVars, cacheVars,
                   lifeVars>>

\* TaskManager.wait_for_all on the tasks T is over: there was none to wait
\* for, all have ended, or the timeout has passed on a task that was never
\* asked to end
WaitOver(T, req) ==
    \/ \A t \in T : tstate[t] # "running"
    \/ \E t \in T : tstate[t] = "running" /\ t \notin req

\* close() of the role up to its first wait that suspends: ipc.stop(),
\* ipc.close() with cancel_all and wait_for_all, then the role's own
\* cancel_all and wait_for_all
CloseStart ==
    /\ closePc = "open"
    /\ stop_future' = TRUE
    /\ ready_future' = Stopped(ready_future)
    /\ IF \A t \in IpcTasks : tstate[t] # "running"
       THEN /\ cancelReq' = cancelReq \cup CancelAll(RoleTasks)
            /\ closePc' = IF \A t \in RoleTasks : tstate[t] # "running"
                          THEN "closed" ELSE "waitRole"
       ELSE /\ cancelReq' = cancelReq \cup CancelAll(IpcTasks)
            /\ closePc' = "waitIpc"
    /\ UNCHANGED <<role, wire, reconnect, clientToken, connPc, connExit, _ws,
                   attempts, tstate, written, rejectedAt, doneCb>>
    /\ UNCHANGED <<hubVars, ipcVars, brainVars, regVars, cacheVars,
                   lifeVars>>

\* close(): wait_for_all of ipc.close() returns; the role's cancel_all and
\* wait_for_all
CloseIpcClosed ==
    /\ closePc = "waitIpc"
    /\ WaitOver(IpcTasks, cancelReq)
    /\ cancelReq' = cancelReq \cup CancelAll(RoleTasks)
    /\ closePc' = IF \A t \in RoleTasks : tstate[t] # "running"
                  THEN "closed" ELSE "waitRole"
    /\ UNCHANGED <<role, wire, reconnect, clientToken, connPc, connExit, _ws,
                   stop_future, ready_future, attempts, tstate, written,
                   rejectedAt, doneCb>>
    /\ UNCHANGED <<hubVars, ipcVars, brainVars, regVars, cacheVars,
                   lifeVars>>

\* close(): the role's wait_for_all returns and close() with it
CloseReturns ==
    /\ closePc = "waitRole"
    /\ WaitOver(RoleTasks, cancelReq)
    /\ closePc' = "closed"
    /\ UNCHANGED <<role, wire, reconnect, clientToken, connPc, connExit, _ws,
                   stop_future, ready_future, attempts, tstate, cancelReq,
                   written, rejectedAt, doneCb>>
    /\ UNCHANGED <<hubVars, ipcVars, brainVars, regVars, cacheVars,
                   lifeVars>>

NextConn ==
    \/ ConnConnect
    \/ ConnHandshake
    \/ \E code \in ReadyCloseCodes : WireCloses(code)
    \/ \E code \in ReadyCloseCodes : ConnClosed(code)
    \/ ConnCancelled
    \/ ConnDoneCallback
    \/ \E h \in Handlers : RecvMessage(h)
    \/ \E h \in Handlers : HandlerSend(h)
    \/ LoopTurn
    \/ \E t \in Tasks : TaskCancelled(t)
    \/ CloseStart
    \/ CloseIpcClosed
    \/ CloseReturns

\* the event loop runs the callbacks it was given
FairConn == WF_vars(ConnDoneCallback)

SpecConn == InitConn /\ [][NextConn]_vars /\ FairConn

\* =============================================================== handlers
\* The EventHandler and the CommandHandler of one client: groups are
\* included, events are handled.  A dict is a function on its keys; a
\* command group, whose order of insertion matters to include, is a
\* sequence of [name, func].
Funcs == 1..NFuncs
EvNames == {"ready"}
\* the names of the events that arrive: one more, which no group has
Arriving == EvNames \cup {"other"}
CmdNames == {"ping", "stop"}

\* the event groups: for some names a list of one function
EvGroups ==
    UNION {[S -> {<<f>> : f \in Funcs}] : S \in SUBSET EvNames}

\* the command groups: distinct names in some order, a function each
CmdGroups ==
    {<<>>}
    \cup {<<[name |-> n, func |-> f]>> : n \in CmdNames, f \in Funcs}
    \cup {grp \in {<<[name |-> n, func |-> f], [name |-> m, func |-> g]>> :
                      n \in CmdNames, m \in CmdNames,
                      f \in Funcs, g \in Funcs} :
             grp[1].name # grp[2].name}

\* dict.get(name) as a list: the list under name, <<>> when there is none
Registered(evs, name) == IF name \in DOMAIN evs THEN evs[name] ELSE <<>>

\* EventHandler.include: for every name of the group, setdefault and
\* extend
IncludeEvents(evs, grp) ==
    [n \in DOMAIN evs \cup DOMAIN grp |->
        Registered(evs, n) \o Registered(grp, n)]

\* an include of commands that overwrites what is there
RECURSIVE IncludeCommandsOverwrite(_, _)
IncludeCommandsOverwrite(tbl, grp) ==
    IF grp = <<>> THEN [commands |-> tbl, raised |-> ""]
    ELSE IncludeCommandsOverwrite(
             [n \in DOMAIN tbl \cup {Head(grp).name} |->
                 IF n = Head(grp).name THEN Head(grp).func ELSE tbl[n]],
             Tail(grp))

\* CommandHandler.include: the group's items in order; the first name
\* that is in the table raises CommandAlreadyExists, what was copied
\* before it stays
RECURSIVE IncludeCommands(_, _)
IncludeCommands(tbl, grp) ==
    IF grp = <<>> THEN [commands |-> tbl, raised |-> ""]
    ELSE IF Head(grp).name \in DOMAIN tbl
    THEN [commands |-> tbl, raised |-> Head(grp).name]
    ELSE IncludeCommands(
             [n \in DOMAIN tbl \cup {Head(grp).name} |->
                 IF n = Head(grp).name THEN Head(grp).func ELSE tbl[n]],
             Tail(grp))

\* a handle_event that an exception of a function ends: behind the end of
\* every list
AfterRaiseStop(idx) == idx + NFuncs * MaxIncludes + 1

\* handle_event after a call that raised an Exception and was logged: the
\* for loop goes on with the next place
AfterRaise(idx) == idx + 1

\* the handlers as constructed: both dicts empty
InitReg ==
    /\ HubIdle
    /\ IpcIdle
    /\ BrainIdle
    /\ ConnIdle
    /\ CacheIdle
    /\ LifeIdle
    /\ current_uid = 0
    /\ events = <<>>
    /\ handler_commands = <<>>
    /\ evName = ""
    /\ evIdx = 0
    /\ invoked = <<>>
    /\ handled = <<>>
    /\ incLog = <<>>
    /\ nevents = 0

\* EventHandler.include(grp)
EventInclude(grp) ==
    /\ Len(incLog) < MaxIncludes
    /\ events' = IncludeEvents(events, grp)
    /\ incLog' = Append(incLog,
          [kind |-> "event", group |-> grp, before |-> events,
           after |-> events', raised |-> ""])
    /\ UNCHANGED <<handler_commands, evName, evIdx, invoked, handled,
                   nevents>>
    /\ UNCHANGED <<hubVars, ipcVars, brainVars, connVars, cacheVars,
                   lifeVars>>

\* CommandHandler.include(grp)
CommandInclude(grp) ==
    /\ Len(incLog) < MaxIncludes
    /\ handler_commands' = IncludeCommands(handler_commands, grp).commands
    /\ incLog' = Append(incLog,
          [kind |-> "command", group |-> grp, before |-> handler_commands,
           after |-> handler_commands',
           raised |-> IncludeCommands(handler_commands, grp).raised])
    /\ UNCHANGED <<events, evName, evIdx, invoked, handled, nevents>>
    /\ UNCHANGED <<hubVars, ipcVars, brainVars, connVars, cacheVars,
                   lifeVars>>

\* handle_event of an event named name, up to its first call: no list
\* under the name and it returns, else the for loop starts
HandleEvent(name) ==
    /\ evName = ""
    /\ nevents < MaxEvents
    /\ nevents' = nevents + 1
    /\ IF name \notin DOMAIN events
       THEN /\ handled' = [name |-> name, registered |-> <<>>,
                            invoked |-> <<>>, sent |-> <<>>]
            /\ UNCHANGED <<evName, evIdx, invoked>>
       ELSE /\ evName' = name
            /\ evIdx' = 1
            /\ invoked' = <<>>
            /\ UNCHANGED handled
    /\ UNCHANGED <<events, handler_commands, incLog>>
    /\ UNCHANGED <<hubVars, ipcVars, brainVars, connVars, cacheVars,
                   lifeVars>>

\* handle_event: the function at the loop's place is awaited and returns
\* or raises an Exception, which is logged
EventCall(outcome) ==
    /\ evName # ""
    /\ evIdx <= Len(events[evName])
    /\ invoked' = Append(invoked,
          [func |-> events[evName][evIdx], outcome |-> outcome])
    /\ evIdx' = IF outcome = "raised" THEN AfterRaise(evIdx) ELSE evIdx + 1
    /\ UNCHANGED <<events, handler_commands, evName, handled, incLog,
                   nevents>>
    /\ UNCHANGED <<hubVars, ipcVars, brainVars, connVars, cacheVars,
                   lifeVars>>

\* handle_event: the for loop is at the end of the list and it returns,
\* having sent nothing
EventDone ==
    /\ evName # ""
    /\ evIdx > Len(events[evName])
    /\ handled' = [name |-> evName, registered |-> events[evName],
                    invoked |-> invoked, sent |-> <<>>]
    /\ evName' = ""
    /\ evIdx' = 0
    /\ invoked' = <<>>
    /\ UNCHANGED <<events, handler_commands, incLog, nevents>>
    /\ UNCHANGED <<hubVars, ipcVars, brainVars, connVars, cacheVars,
                   lifeVars>>

\* the groups are included
NextReg ==
    \/ \E grp \in EvGroups : EventInclude(grp)
    \/ \E grp \in CmdGroups : CommandInclude(grp)

SpecReg == InitReg /\ [][NextReg]_vars

\* event groups are included and events are handled
NextEvents ==
    \/ \E grp \in EvGroups : EventInclude(grp)
    \/ \E name \in Arriving : HandleEvent(name)
    \/ \E outcome \in {"returned", "raised"} : EventCall(outcome)
    \/ EventDone

SpecEvents == InitReg /\ [][NextEvents]_vars

\* ========================================================== client caches
\* One hub client (the brain's, which also holds waiting_for): the caches
\* its handlers fill from the info events of its peers, the presence
\* messages that evict from them, and the reads made on them.
ServerInfoUids == {2, 3}
ClusterInfoUids == {4, 5}

\* the shards a cluster process was launched with: fixed for its uid; the
\* process of uid 6 was launched with the shards of uid 4
ShardsOf(u) == IF u \in {4, 6} THEN {0, 1} ELSE {2, 3}

\* the ServerInfo and ClusterInfo records that peers announce
ServerInfos ==
    [uid : {2}, cluster_uids : SUBSET ClusterInfoUids]
       \cup [uid : {3}, cluster_uids : {{}, {5}}]
ClusterInfos ==
    {[uid |-> u, server_uid |-> sv, shard_ids |-> ShardsOf(u), ready |-> r] :
        u \in ClusterInfoUids, sv \in ServerInfoUids, r \in BOOLEAN}

\* the client_uids lists of the hub's presence messages
Presences == {{1}, {1, 2, 4}, {1, 3, 5}, {1, 2, 3, 4, 5}}

\* the values Brain._main_loop stores in waiting_for
WaitingForValues == {<<sv, sh>> : sv \in ServerInfoUids, sh \in {0, 2}}

\* ClusterInfo.cluster_id: smallest_shard // len(shard_ids)
cluster_id(c) == Smallest(c.shard_ids) \div Cardinality(c.shard_ids)

\* an update that evicts no server
KeepAllServers(srvs, S) == srvs

\* _update_clients, lines 354-356: the servers whose uid is in S
KeepServers(srvs, S) == SelectSeq(srvs, LAMBDA sv : sv.uid \in S)

\* _update_clients, lines 360-363: the clusters whose uid is in S
KeepClusters(cls, S) == {c \in cls : c.uid \in S}

\* _update_clients, lines 358-369: the entries left in
\* clusters_by_cluster_id, those under the cluster id of no evicted cluster
KeepByClusterId(by, cls, S) ==
    [k \in DOMAIN by \ {cluster_id(c) : c \in {d \in cls : d.uid \notin S}}
        |-> by[k]]

\* IpcClient._update_clients(S)
UpdateClients(S) ==
    /\ client_uids' = S
    /\ servers' = KeepServers(servers, S)
    /\ clusters' = KeepClusters(clusters, S)
    /\ clusters_by_cluster_id' =
          KeepByClusterId(clusters_by_cluster_id, clusters, S)

\* update_server_info: servers[sinfo.uid] = sinfo
SetServerInfo(sinfo) ==
    /\ servers' = PutServer(servers, sinfo)
    /\ UNCHANGED <<clusters, clusters_by_cluster_id, client_uids>>

\* update_cluster_info: both cluster caches take cinfo
SetClusterInfo(cinfo) ==
    /\ clusters' = PutInfo(clusters, cinfo)
    /\ clusters_by_cluster_id' =
          (cluster_id(cinfo) :> cinfo) @@ clusters_by_cluster_id
    /\ UNCHANGED <<servers, client_uids>>

\* the client after its handshake with nothing cached
InitCache ==
    /\ HubIdle
    /\ IpcIdle
    /\ BrainIdle
    /\ ConnIdle
    /\ RegIdle
    /\ CacheIdle
    /\ LifeIdle
    /\ current_uid = 0

\* the handler of a set_server_info event runs
UpdateServerInfo(sinfo) ==
    /\ SetServerInfo(sinfo)
    /\ ret' = NoRet
    /\ UNCHANGED <<waiting_for, msgLog>>
    /\ UNCHANGED <<hubVars, ipcRest, brainRest, connVars, regVars,
                   lifeVars>>

\* the handler of a set_cluster_info event runs
UpdateClusterInfo(cinfo) ==
    /\ SetClusterInfo(cinfo)
    /\ ret' = NoRet
    /\ UNCHANGED <<waiting_for, msgLog>>
    /\ UNCHANGED <<hubVars, ipcRest, brainRest, connVars, regVars,
                   lifeVars>>

\* the receive loop applies a presence message that lists S
ApplyPresence(S) ==
    /\ UpdateClients(S)
    /\ ret' = [op |-> "_update_clients", arg |-> S,
               val |-> (ServerUids(servers) \cup {c.uid : c \in clusters})
                          \ S]
    /\ UNCHANGED <<waiting_for, msgLog>>
    /\ UNCHANGED <<hubVars, ipcRest, brainRest, connVars, regVars,
                   lifeVars>>

\* Brain.waiting_for, the setter
SetWaitingFor(wf) ==
    /\ waiting_for' = wf
    /\ ret' = NoRet
    /\ UNCHANGED <<servers, clusters, clusters_by_cluster_id, client_uids,
                   msgLog>>
    /\ UNCHANGED <<hubVars, ipcRest, brainRest, connVars, regVars,
                   lifeVars>>

\* Brain.waiting_for, the getter: arg is what the slot held, val what the
\* getter returned
ReadWaitingFor ==
    /\ waiting_for' = WaitingFor(waiting_for, servers, clusters)
    /\ ret' = [op |-> "waiting_for", arg |-> waiting_for,
               val |-> WaitingFor(waiting_for, servers, clusters)]
    /\ UNCHANGED <<servers, clusters, clusters_by_cluster_id, client_uids,
                   msgLog>>
    /\ UNCHANGED <<hubVars, ipcRest, brainRest, connVars, regVars,
                   lifeVars>>

\* IpcClient.all_shards()
ReadAllShards ==
    /\ ret' = [op |-> "all_shards", arg |-> <<>>,
               val |-> AllShards(servers, clusters)]
    /\ UNCHANGED <<servers, clusters, clusters_by_cluster_id, client_uids,
                   waiting_for, msgLog>>
    /\ UNCHANGED <<hubVars, ipcRest, brainRest, connVars, regVars,
                   lifeVars>>

NextCache ==
    \/ \E sinfo \in ServerInfos : UpdateServerInfo(sinfo)
    \/ \E cinfo \in ClusterInfos : UpdateClusterInfo(cinfo)
    \/ \E S \in Presences : ApplyPresence(S)
    \/ \E wf \in WaitingForValues : SetWaitingFor(wf)
    \/ ReadWaitingFor
    \/ ReadAllShards

SpecCache == InitCache /\ [][NextCache]_vars

\* ----------------------------------------------------------- receive loop
\* The frames the hub writes to a client: its own presence messages, and
\* the payloads of other clients, which it forwards only once they have
\* decoded.  opcode is -1 for a frame without that key
OPCODES == 0..4

InternalFrame(S) ==
    [internal |-> TRUE, client_uids |-> S, opcode |-> -1, name |-> "",
     data |-> <<>>]

PayloadData(opcode, name, data) ==
    [internal |-> FALSE, client_uids |-> {}, opcode |-> opcode,
     name |-> name, data |-> data]

\* payload.Command, payload.Event and payload.ResponseOk
CommandData(name) == PayloadData(0, name, <<>>)
EventData(name, data) == PayloadData(1, name, data)
ResponseOkData == PayloadData(2, "", <<>>)

\* a receive loop that hands every frame to _handle_message
RouteAllToTasks(f) == "task"

\* _recv_loop, lines 375-378: the branch on data.get("internal", False)
Route(f) == IF f.internal THEN "presence" ELSE "task"

\* _handle_message, lines 382-387: the handler the decoded payload goes to
HandlerOf(opcode) ==
    IF opcode = 0 THEN "commands"
    ELSE IF opcode = 1 THEN "events"
    ELSE "callbacks"

\* _recv_loop reads the frame f: a presence message is applied at once,
\* for any other frame a task is created
Recv(f) ==
    /\ Len(msgLog) < MaxRecv
    /\ msgLog' = Append(msgLog,
                        [frame |-> f, by |-> Route(f), decoded |-> FALSE])
    /\ IF Route(f) = "presence"
       THEN UpdateClients(f.client_uids)
       ELSE UNCHANGED <<client_uids, servers, clusters,
                        clusters_by_cluster_id>>
    /\ UNCHANGED <<waiting_for, ret>>
    /\ UNCHANGED <<hubVars, ipcRest, brainRest, connVars, regVars,
                   lifeVars>>

\* the task of _handle_message for the i-th frame runs: deserialize_payload
\* raises on a frame without an opcode; a command goes to the command
\* handler, an event to the event handler, whose functions for
\* set_server_info and set_cluster_info fill the caches, and a response to
\* the callback engine, which knows no call here and drops it
HandleMessage(i) ==
    /\ i \in 1..Len(msgLog)
    /\ msgLog[i].by = "task"
    /\ LET f == msgLog[i].frame
       IN /\ msgLog' = [msgLog EXCEPT ![i].decoded = TRUE,
                                      ![i].by = IF f.opcode \in OPCODES
                                                THEN HandlerOf(f.opcode)
                                                ELSE "raised"]
          /\ IF f.opcode = 1 /\ f.name = "set_server_info"
             THEN SetServerInfo(f.data)
             ELSE IF f.opcode = 1 /\ f.name = "set_cluster_info"
             THEN SetClusterInfo(f.data)
             ELSE UNCHANGED <<client_uids, servers, clusters,
                              clusters_by_cluster_id>>
    /\ UNCHANGED <<waiting_for, ret>>
    /\ UNCHANGED <<hubVars, ipcRest, brainRest, connVars, regVars,
                   lifeVars>>

NextRecv ==
    \/ \E S \in Presences : Recv(InternalFrame(S))
    \/ \E sinfo \in {x \in ServerInfos : Cardinality(x.cluster_uids) = 1} :
          Recv(EventData("set_server_info", sinfo))
    \/ \E cinfo \in {x \in ClusterInfos : x.ready} :
          Recv(EventData("set_cluster_info", cinfo))
    \/ Recv(CommandData("ping"))
    \/ Recv(ResponseOkData)
    \/ \E i \in 1..MaxRecv : HandleMessage(i)

SpecRecv == InitCache /\ [][NextRecv]_vars

\* ------------------------------------------------ connection and caches
\* One client from start() to close() together with its uid and caches:
\* the handshake seeds client_uids, the receive loop applies presence
\* messages and the info events of two peers, a server and its cluster,
\* and the finally block of _start clears the caches.  The handlers of
\* set_server_info and set_cluster_info do not suspend, and a task takes
\* its first step before the receive loop is resumed at its next
\* suspension, so an info event is applied before the connection is left.
SessionPeers == {2, 4}

\* the hub's counter when the client starts: its peers connected before
LastPeerUid ==
    CHOOSE u \in ServerInfoUids \cup ClusterInfoUids :
        \A v \in ServerInfoUids \cup ClusterInfoUids : v <= u

\* the client_uids lists of the hub's handshake replies: the clients in
\* its map then, the new one not among them
HandshakeLists == {{2}, {2, 4}}

SessionServerInfos == {si \in ServerInfos : si.uid = 2 /\ si.cluster_uids = {4}}
SessionClusterInfos ==
    {ci \in ClusterInfos : ci.uid = 4 /\ ci.server_uid = 2 /\ ci.ready}

\* a finally block that leaves a cache as it is
ClearedKeeps(cache, empty) == cache

\* _start, lines 334-337: cache.clear()
Cleared(cache, empty) == empty

\* _start, the four clear() calls of its finally block
ClearCaches ==
    /\ client_uids' = Cleared(client_uids, {})
    /\ clusters_by_cluster_id' = Cleared(clusters_by_cluster_id, <<>>)
    /\ clusters' = Cleared(clusters, {})
    /\ servers' = Cleared(servers, <<>>)

InitSession == RoleStarted /\ current_uid = LastPeerUid

\* _handshake and the lines of _start that follow: the reply's uid and
\* client_uids are stored before _ws is set
SessionHandshake ==
    /\ HandshakeStep
    /\ IF TokenOk(TokenFrame(clientToken))
       THEN /\ uid' = <<NextUid(current_uid)>>
            /\ \E S \in HandshakeLists : client_uids' = S
       ELSE UNCHANGED <<uid, client_uids>>
    /\ UNCHANGED <<hubRest, ipcQuiet, brainVars, regVars, cacheVars,
                   lifeVars>>

\* _start is resumed on a connection that has ended
SessionClosed(code) ==
    /\ ClosedStep(code)
    /\ ClearCaches
    /\ UNCHANGED <<uid, waiting_for, ret, msgLog>>
    /\ UNCHANGED <<hubVars, ipcQuiet, brainRest, regVars,
                   lifeVars>>

\* the _start task is resumed after Task.cancel(): its finally block runs
\* if it was in the receive loop
SessionCancelled ==
    /\ CancelledStep
    /\ IF connPc = "ready"
       THEN ClearCaches
       ELSE UNCHANGED <<client_uids, clusters_by_cluster_id, clusters,
                        servers>>
    /\ UNCHANGED <<uid, waiting_for, ret, msgLog>>
    /\ UNCHANGED <<hubVars, ipcQuiet, brainRest, regVars,
                   lifeVars>>

\* the receive loop reads a presence message or an info event of a peer
SessionRecv ==
    /\ Runs(ConnTask)
    /\ connPc = "ready"
    /\ \/ \E S \in SUBSET SessionPeers : ApplyPresence(S \cup {uid[1]})
       \/ \E sinfo \in SessionServerInfos : UpdateServerInfo(sinfo)
       \/ \E cinfo \in SessionClusterInfos : UpdateClusterInfo(cinfo)

NextSession ==
    \/ ConnConnect
    \/ SessionHandshake
    \/ \E code \in ReadyCloseCodes : WireCloses(code)
    \/ \E code \in ReadyCloseCodes : SessionClosed(code)
    \/ SessionCancelled
    \/ ConnDoneCallback
    \/ SessionRecv
    \/ \E t \in Tasks : TaskCancelled(t)
    \/ CloseStart
    \/ CloseIpcClosed
    \/ CloseReturns

SpecSession == InitSession /\ [][NextSession]_vars

\* ------------------------------------------------- relaunched clusters
\* The caches of a client while clusters come and go: the cluster of uid 6
\* runs the shards that the cluster of uid 4 was launched with before it.
RelaunchUids == {4, 5, 6}

RelaunchInfos ==
    {[uid |-> u, server_uid |-> sv, shard_ids |-> ShardsOf(u), ready |-> TRUE] :
        u \in RelaunchUids, sv \in ServerInfoUids}

\* the client_uids lists of the presence messages: the client itself, the
\* servers and the clusters that are connected
RelaunchPresences == {{1, 2, 3} \cup S : S \in SUBSET RelaunchUids}

NextRelaunch ==
    \/ \E cinfo \in RelaunchInfos : UpdateClusterInfo(cinfo)
    \/ \E S \in RelaunchPresences : ApplyPresence(S)

SpecRelaunch == InitCache /\ [][NextRelaunch]_vars

\* ------------------------------------------------- the hub's shutdown
\* The hub from start() to close(): the _start task that serves inside
\* "async with server.serve(...)" until stop_future is done, the
\* _send_client_uids_loop task, stop() and close().  Leaving the with
\* block closes the server: it listens no more, closes its connections and
\* waits for their handlers to end.
AcceptTask == "_start"
BroadcastTask == "_send_client_uids_loop"
HubTasks == {AcceptTask, BroadcastTask}

\* the allow_cancel flag start() gives each task
allow_cancel(t) == t # AcceptTask

\* a cancel_all that does not look at allow_cancel
CancelEvery(T) == {t \in T : hubTask[t] = "running"}

\* TaskManager.cancel_all on the hub's tasks: Task.cancel() on every task
\* that allows it and has not ended
CancelAllowed(T) == {t \in T : allow_cancel(t) /\ hubTask[t] = "running"}

\* the hub after start(): both futures fresh, both tasks created
InitShutdown ==
    /\ HubIdle
    /\ IpcIdle
    /\ BrainIdle
    /\ ConnIdle
    /\ RegIdle
    /\ CacheIdle
    /\ current_uid = 0
    /\ hub_stop_future = FALSE
    /\ hub_ready_future = "pending"
    /\ hubTask = [t \in HubTasks |-> "running"]
    /\ acceptPc = "starting"
    /\ acceptExit = ""
    /\ loopPc = "wait"
    /\ hubCancelReq = {}
    /\ hubClosePc = "open"
    /\ serving = 0
    /\ naccepted = 0
    /\ cluster_stop_future = FALSE

\* _start enters the with block: the server listens, and ready_future is
\* resolved; if stop() has cancelled it, set_result raises and the
\* exception leaves the with block
ServeStarts ==
    /\ acceptPc = "starting"
    /\ IF hub_ready_future = "pending"
       THEN /\ hub_ready_future' = "done"
            /\ acceptPc' = "serving"
            /\ UNCHANGED acceptExit
       ELSE /\ acceptPc' = "closing"
            /\ acceptExit' = "InvalidStateError"
            /\ UNCHANGED hub_ready_future
    /\ UNCHANGED <<hub_stop_future, hubTask, loopPc, hubCancelReq,
                   hubClosePc, serving, naccepted>>
    /\ UNCHANGED <<hubVars, ipcVars, brainVars, connVars, regVars,
                   cacheVars, workerVars>>

\* the server accepts a connection and starts its _serve handler
Accept ==
    /\ acceptPc = "serving"
    /\ naccepted < MaxConn
    /\ naccepted' = naccepted + 1
    /\ serving' = serving + 1
    /\ UNCHANGED <<hub_stop_future, hub_ready_future, hubTask, acceptPc,
                   acceptExit, loopPc, hubCancelReq, hubClosePc>>
    /\ UNCHANGED <<hubVars, ipcVars, brainVars, connVars, regVars,
                   cacheVars, workerVars>>

\* a _serve handler ends: its client closed the connection, or the
\* closing server did
ServeHandlerEnds ==
    /\ serving > 0
    /\ serving' = serving - 1
    /\ UNCHANGED <<hub_stop_future, hub_ready_future, hubTask, acceptPc,
                   acceptExit, loopPc, hubCancelReq, hubClosePc, naccepted>>
    /\ UNCHANGED <<hubVars, ipcVars, brainVars, connVars, regVars,
                   cacheVars, workerVars>>

\* IpcServer.stop
HubStop ==
    /\ ~hub_stop_future
    /\ hub_stop_future' = TRUE
    /\ hub_ready_future' = Stopped(hub_ready_future)
    /\ UNCHANGED <<hubTask, acceptPc, acceptExit, loopPc, hubCancelReq,
                   hubClosePc, serving, naccepted>>
    /\ UNCHANGED <<hubVars, ipcVars, brainVars, connVars, regVars,
                   cacheVars, workerVars>>

\* _start is resumed from "await self.stop_future" and leaves the with
\* block
ServeStops ==
    /\ acceptPc = "serving"
    /\ hub_stop_future
    /\ acceptPc' = "closing"
    /\ UNCHANGED <<hub_stop_future, hub_ready_future, hubTask, acceptExit,
                   loopPc, hubCancelReq, hubClosePc, serving, naccepted>>
    /\ UNCHANGED <<hubVars, ipcVars, brainVars, connVars, regVars,
                   cacheVars, workerVars>>

\* the closed server has no handler left: the with block is left and the
\* _start task ends
ServeExits ==
    /\ acceptPc = "closing"
    /\ serving = 0
    /\ acceptPc' = "done"
    /\ acceptExit' = IF acceptExit = "" THEN "return" ELSE acceptExit
    /\ hubTask' = [hubTask EXCEPT ![AcceptTask] = "done"]
    /\ UNCHANGED <<hub_stop_future, hub_ready_future, loopPc, hubCancelReq,
                   hubClosePc, serving, naccepted>>
    /\ UNCHANGED <<hubVars, ipcVars, brainVars, connVars, regVars,
                   cacheVars, workerVars>>

\* _send_client_uids_loop gets past wait_until_ready, or ends there with
\* the CancelledError of a ready_future that stop() cancelled
BroadcastReady ==
    /\ hubTask[BroadcastTask] = "running"
    /\ BroadcastTask \notin hubCancelReq
    /\ loopPc = "wait"
    /\ hub_ready_future # "pending"
    /\ IF hub_ready_future = "done"
       THEN loopPc' = "loop" /\ UNCHANGED hubTask
       ELSE /\ hubTask' = [hubTask EXCEPT ![BroadcastTask] = "cancelled"]
            /\ UNCHANGED loopPc
    /\ UNCHANGED <<hub_stop_future, hub_ready_future, acceptPc, acceptExit,
                   hubCancelReq, hubClosePc, serving, naccepted>>
    /\ UNCHANGED <<hubVars, ipcVars, brainVars, connVars, regVars,
                   cacheVars, workerVars>>

\* a task that Task.cancel() was called on is resumed with CancelledError
\* and ends
HubTaskCancelled(t) ==
    /\ t \in hubCancelReq
    /\ hubTask[t] = "running"
    /\ t # AcceptTask
    /\ hubTask' = [hubTask EXCEPT ![t] = "cancelled"]
    /\ UNCHANGED <<hub_stop_future, hub_ready_future, acceptPc, acceptExit,
                   loopPc, hubCancelReq, hubClosePc, serving, naccepted>>
    /\ UNCHANGED <<hubVars, ipcVars, brainVars, connVars, regVars,
                   cacheVars, workerVars>>

\* IpcServer.close up to the wait of wait_for_all
HubClose ==
    /\ hubClosePc = "open"
    /\ hubCancelReq' = hubCancelReq \cup CancelAllowed(HubTasks)
    /\ hubClosePc' =
          IF \A t \in HubTasks : hubTask[t] # "running"
          THEN "closed" ELSE "waiting"
    /\ UNCHANGED <<hub_stop_future, hub_ready_future, hubTask, acceptPc,
                   acceptExit, loopPc, serving, naccepted>>
    /\ UNCHANGED <<hubVars, ipcVars, brainVars, connVars, regVars,
                   cacheVars, workerVars>>

\* wait_for_all returns, all tasks ended or the timeout passed, and close()
\* with it
HubCloseReturns ==
    /\ hubClosePc = "waiting"
    /\ hubClosePc' = "closed"
    /\ UNCHANGED <<hub_stop_future, hub_ready_future, hubTask, acceptPc,
                   acceptExit, loopPc, hubCancelReq, serving, naccepted>>
    /\ UNCHANGED <<hubVars, ipcVars, brainVars, connVars, regVars,
                   cacheVars, workerVars>>

NextShutdown ==
    \/ ServeStarts
    \/ Accept
    \/ ServeHandlerEnds
    \/ HubStop
    \/ ServeStops
    \/ ServeExits
    \/ BroadcastReady
    \/ \E t \in HubTasks : HubTaskCancelled(t)
    \/ HubClose
    \/ HubCloseReturns

\* the event loop resumes every task that can run, and a closed server
\* closes its connections, which ends their handlers
FairShutdown ==
    /\ WF_vars(ServeStarts)
    /\ WF_vars(ServeStops)
    /\ WF_vars(ServeExits)
    /\ WF_vars(acceptPc = "closing" /\ ServeHandlerEnds)
    /\ WF_vars(BroadcastReady)
    /\ WF_vars(\E t \in HubTasks : HubTaskCancelled(t))

SpecShutdown == InitShutdown /\ [][NextShutdown]_vars /\ FairShutdown

\* ------------------------------------------------- a cluster's worker
\* ClusterLauncher.launch_cluster in the worker process: bot.start(), then
\* bot.join(), then bot.close().  The cluster's IpcClient is the role
\* client of SpecConn with role "cluster"; Cluster.stop_future is its own
\* stop signal, set by the command cluster_stop.

\* the worker after bot.start(): the state of a started role that is a
\* Cluster, its own stop_future fresh
InitWorker == InitConn /\ role = "cluster"

\* handle_command in task h runs handle_stop, which calls cluster.stop(),
\* and answers: the ok response, or the traceback of the InvalidStateError
\* that set_result raises on a future that is done
ClusterStop(h) ==
    /\ Runs(h)
    /\ cluster_stop_future' = TRUE
    /\ written' = IF _ws /\ wire = 0 THEN Written(h) ELSE written
    /\ tstate' = [tstate EXCEPT ![h] = "done"]
    /\ UNCHANGED <<role, wire, reconnect, clientToken, connPc, connExit, _ws,
                   stop_future, ready_future, attempts, cancelReq, closePc,
                   rejectedAt, doneCb>>
    /\ UNCHANGED <<hubVars, ipcVars, brainVars, regVars, cacheVars, hubLife>>

\* join() returns, one of the two futures being done, and the worker calls
\* close()
JoinReturns ==
    /\ cluster_stop_future \/ stop_future
    /\ CloseStart

NextWorker ==
    \/ ConnConnect
    \/ ConnHandshake
    \/ \E code \in ReadyCloseCodes : WireCloses(code)
    \/ \E code \in ReadyCloseCodes : ConnClosed(code)
    \/ ConnCancelled
    \/ ConnDoneCallback
    \/ \E h \in Handlers : RecvMessage(h)
    \/ \E h \in Handlers : HandlerSend(h)
    \/ \E h \in Handlers : ClusterStop(h)
    \/ LoopTurn
    \/ \E t \in Tasks : TaskCancelled(t)
    \/ JoinReturns
    \/ CloseIpcClosed
    \/ CloseReturns

\* the event loop resumes the tasks that can go on and runs the callbacks
\* it was given; run_until_complete(bot.close()) follows the return of
\* run_until_complete(bot.join())
FairWorker ==
    /\ WF_vars(\E code \in ReadyCloseCodes : ConnClosed(code))
    /\ WF_vars(ConnCancelled)
    /\ WF_vars(ConnDoneCallback)
    /\ WF_vars(\E t \in Tasks : TaskCancelled(t))
    /\ WF_vars(JoinReturns)
    /\ WF_vars(CloseIpcClosed)
    /\ WF_vars(CloseReturns)

SpecWorker == InitWorker /\ [][NextWorker]_vars /\ FairWorker

\* ---------------------------------------------------------------- claims
\* the first frame of connection c is a handshake request with another
\* token than the hub's, or with none
BadToken(c) == firstOf[c].kind = "token" /\ firstOf[c].tok # token

\* the frames of the sequence s that equal f
Copies(s, f) == Count(s, f)

C2_UidsStrictlyIncrease ==
    /\ \A i \in 1..Len(assigned) : assigned[i] > 0
    /\ \A i, j \in 1..Len(assigned) : i < j => assigned[i] < assigned[j]
    /\ \A c, d \in Conn : (c # d /\ uidOf[c] # 0) => uidOf[c] # uidOf[d]

\* C2 witness: a client has disconnected and been removed from the map, and
\* a later connection holds a uid
C2_Witness ==
    \E c, d \in Conn :
        /\ pc[c] = "done" /\ uidOf[c] # 0
        /\ c < d /\ uidOf[d] # 0 /\ pc[d] = "recv"
        /\ Range(clients) = {uidOf[d]}

\* the recipients of its frame that the dispatch of connection c has
\* already gone through
Processed(c) == SubSeq(cur[c].to, 1, Len(cur[c].to) - Len(todo[c]))

\* C8: a payload the hub has sent on a connection was sent by a client as it
\* is, lists that connection's uid among its recipients, and was sent there
\* no more often than the list names it; and while the hub dispatches a
\* frame its sender stays in the map and every recipient already gone
\* through that was online when the dispatch began and still is has got the
\* frame once per mention, whatever unknown or offline uids the list holds.
C8_ForwardedToListedOnline ==
    \A c \in Conn :
        /\ \A i \in 1..Len(outq[c].pay) :
              LET f == outq[c].pay[i] IN
                /\ f.sq \in 1..Len(sentLog) /\ sentLog[f.sq] = f
                /\ uidOf[c] \in Range(f.to)
                /\ Copies(outq[c].pay, f) <= Count(f.to, uidOf[c])
        /\ pc[c] = "dispatch" =>
              /\ uidOf[c] \in Range(clients)
              /\ \A u \in Range(Processed(c)) :
                    (u \in dispStart[c] /\ Online(u)) =>
                        Copies(outq[ConnOf(u)].pay, cur[c])
                            = Count(Processed(c), u)

\* C8 witness: a dispatch has finished going through a list that named an
\* unknown uid and an online recipient, which has the frame
C8_Witness ==
    \E c \in Conn :
        /\ pc[c] = "dispatch" /\ todo[c] = <<>>
        /\ UnknownUid \in Range(cur[c].to)
        /\ \E u \in Range(cur[c].to) :
              Online(u) /\ Copies(outq[ConnOf(u)].pay, cur[c]) = 2

ResultKinds == {"Ok", "Traceback", "NotFound", "NoResponse"}

\* C3: every send_command that returns gives a map whose keys are exactly
\* the recipients the call was given, each key holding a response Ok,
\* Traceback or NotFound, or the NoResponse mark
C3_ResultKeysAreResponders ==
    callPc = "returned" =>
        /\ DOMAIN result = Range(callTo)
        /\ \A u \in DOMAIN result : result[u].kind \in ResultKinds

\* C4: when a responder of an outstanding call has been reported gone by a
\* presence message and every other responder has answered, the call does
\* not go on waiting: the wait never sleeps in such a state
C4_ReturnsWhenResponderGone == ~sleptSettled

\* C5: the wait returns once every responder has a response and otherwise
\* when the timeout has passed, with the missing responders marked
\* NoResponse; it never waits beyond the timeout (one look of 0.1 s late at
\* the most)
C5_NeverWaitsBeyondTimeout ==
    /\ elapsed <= Timeout * TicksPerSecond + 1
    /\ callPc = "returned" => Range(callTo) \subseteq DOMAIN result

\* the responses written for the command frame k that are in flight
ResponsesTo(k) == {f \in net : f.op # "Command" /\ f.id = k}

\* C6: a client writes at most one response for a command it received,
\* with the command's callback key and to the command's author
C6_AtMostOneResponse ==
    /\ \A k \in 1..ncmds : Cardinality(ResponsesTo(k)) <= 1
    /\ \A e \in taskLog :
          /\ Cardinality(e.sent) <= 1
          /\ \A f \in e.sent : f.cb = e.cmd.cb /\ f.dst = e.cmd.author
          /\ \A e2 \in taskLog : e2.id = e.id => e2 = e

\* a command was answered, and its one response is on its way to the author
C6_Witness ==
    \E e \in taskLog :
        /\ Cardinality(e.sent) = 1
        /\ e.sent \subseteq net
        /\ \E t \in tasks : t.cmd.cb # e.cmd.cb

\* the responses written for the logged command e, as kind and value
SentKinds(e) == {Response(f.op, f.val) : f \in e.sent}

\* C7: a command whose name has no command function is answered NotFound;
\* one whose function returns is answered Ok with the returned value; one
\* whose function raises is answered Traceback, the exception staying
\* inside the dispatcher (the client being connected when it answers)
C7_ResponseMatchesOutcome ==
    \A e \in taskLog :
        /\ ~e.found => SentKinds(e) = {Response("NotFound", 0)}
        /\ (e.found /\ e.up /\ e.outcome = "returned")
              => SentKinds(e) = {Response("Ok", e.val)}
        /\ (e.found /\ e.up /\ e.outcome = "raised")
              => SentKinds(e) = {Response("Traceback", 0)}

\* three commands were handled: one unknown, one that returned 1, one that
\* raised
C7_Witness ==
    /\ \E e \in taskLog : ~e.found /\ e.sent # {}
    /\ \E e \in taskLog : e.found /\ e.up /\ e.outcome = "returned"
                          /\ e.val = 1
    /\ \E e \in taskLog : e.found /\ e.up /\ e.outcome = "raised"

\* the launches under way: commands on their way to a server, and cluster
\* processes that were started and have not connected to the hub yet
Outstanding ==
    {c.id : c \in cmdq} \cup {p.id : p \in {q \in procs : q.uid = 0}}

\* C10: the brain sends no launch_cluster while a cluster of its registry
\* is not ready or while it waits for one, so at most one launch is under
\* way at a time: no cluster is started before the previous one is up
C10_OneLaunchOutstanding == Cardinality(Outstanding) <= 1

\* the first sentence of C10 alone: at the step that writes a
\* launch_cluster command every cluster of the registry is ready and the
\* waiting_for property is None
LaunchOnlyWhenSettled ==
    [][nlaunch' # nlaunch =>
          /\ \A c \in clusters : c.ready
          /\ WaitingFor(waiting_for, servers, clusters) = <<>>]_vars

\* the k-th block of ShardsPerCluster shards, counting from 1
Block(k) == {(k - 1) * ShardsPerCluster + i : i \in 0..(ShardsPerCluster - 1)}

\* every shard is in a live cluster of the brain's registry
AllLive == AllShards(servers, clusters) = 0..(total_shards - 1)

\* the launches so far went block after block: the k-th command carried the
\* k-th block and the total shard count, no launch was sent before the
\* cluster of the previous one was live, and at most one was under way
InBlockOrder ==
    /\ \A c \in cmdq :
          c.shard_ids = Block(c.id) /\ c.shard_count = total_shards
    /\ \A q \in procs :
          q.shard_ids = Block(q.id) /\ q.shard_count = total_shards
    /\ \A k \in 2..nlaunch :
          Block(k - 1) \subseteq AllShards(servers, clusters)
    /\ Cardinality(Outstanding) <= 1

RelaunchesOf(p) ==
    {c.id : c \in {d \in cmdq :
                      d.id > p.diedAt /\ d.shard_ids = p.shard_ids}}
    \cup {q.id : q \in {d \in procs :
                      d.id > p.diedAt /\ d.shard_ids = p.shard_ids}}

\* C12: after a live cluster's process exits (a server with room staying
\* connected) the brain sends a new launch_cluster for the same shards;
\* so once the brain, the servers and the clusters have nothing left to
\* do, the launch has been sent
C12_RelaunchedAfterExit ==
    \A p \in procs :
        (~p.alive /\ p.diedLive /\ nlaunch < MaxLaunches
           /\ ~ENABLED ReapProgress)
        => RelaunchesOf(p) # {}

\* the processes that server s keeps in cluster_processes
Tracked(s) == {e.id : e \in cluster_processes[s]}

\* C13: once a launched cluster process is no longer alive, its server
\* sends cluster_died to the brain and takes the process out of
\* cluster_processes; so once the brain, the servers and the clusters have
\* nothing left to do, no process that exited is still in the dict
C13_ExitedProcessReaped ==
    ~ENABLED ReapProgress =>
        \A p \in procs : ~p.alive => p.id \notin Tracked(p.srv)

\* C14: a client whose token the hub rejected with INVALID_TOKEN makes no
\* further connection attempt, with reconnect set or not: its _start task
\* has ended and the rejected attempt stays its last one
C14_NoAttemptAfterRejection ==
    rejectedAt # 0 =>
        /\ attempts = rejectedAt
        /\ connPc = "done"
        /\ tstate[ConnTask] = "done"

\* a client with reconnect set was rejected, and its done callback has run
C14_Witness ==
    /\ rejectedAt # 0
    /\ reconnect
    /\ doneCb
    /\ attempts < MaxAttempts

\* C15: when the hub closes with INVALID_TOKEN in answer to the token, the
\* client's connection task ends with InvalidIpcToken
C15_RejectionRaisesInvalidIpcToken ==
    rejectedAt # 0 => connExit = "InvalidIpcToken"

\* C16: when a connection that reached Ready is closed, the client goes
\* back to connecting if and only if reconnect is set and the close did not
\* come from a cancel by close(); otherwise its _start task ends, and the
\* stop signal is set then
C16_ReconnectIffAllowed ==
    /\ [][(connPc = "ready" /\ connPc' # "ready") =>
             /\ (connPc' = "connecting")
                   <=> (reconnect /\ ConnTask \notin cancelReq)
             /\ connPc' # "connecting" =>
                   (connPc' = "done" /\ tstate'[ConnTask] = "done")]_vars
    /\ (connPc = "done" /\ attempts > 0) ~> stop_future

\* a client with reconnect set is Ready on its second connection: the
\* first one was closed and it connected again
C16_Witness ==
    /\ reconnect
    /\ attempts = 2
    /\ connPc = "ready"
    /\ closePc = "open"

\* C17: once close() of the role has returned no frame is written any
\* more: every task that could send has ended, and no frame was written
\* after the return
C17_SilentAfterClose ==
    /\ \A f \in written : ~f.closed
    /\ closePc = "closed" => \A t \in Tasks : tstate[t] # "running"

\* close() has returned on a role whose _start task, loop and message
\* handler had all written frames
C17_Witness ==
    /\ closePc = "closed"
    /\ {f.by : f \in written} = Tasks

\* the functions of the calls cs, in the order of the calls
FuncsOf(cs) == [i \in 1..Len(cs) |-> cs[i].func]

\* C18: handle_event calls every function registered under the event's
\* name, in the order of registration, whether or not an earlier one
\* raised an Exception, and sends no response
C18_EveryHandlerInOrder ==
    /\ handled # <<>> =>
          /\ FuncsOf(handled.invoked) = handled.registered
          /\ handled.sent = <<>>
    /\ evName # "" =>
          /\ Len(invoked) = evIdx - 1
          /\ FuncsOf(invoked) = SubSeq(events[evName], 1, evIdx - 1)

\* an event with two different functions under its name was handled: the
\* first raised and the second returned
C18_Witness ==
    /\ handled # <<>>
    /\ Len(handled.registered) = 2
    /\ handled.registered[1] # handled.registered[2]
    /\ handled.invoked[1].outcome = "raised"
    /\ handled.invoked[2].outcome = "returned"

\* the names of the command group grp
GroupNames(grp) == {grp[k].name : k \in 1..Len(grp)}

\* C19: including a command group raises CommandAlreadyExists exactly when
\* one of its names is in the table already, so the same non-empty group
\* fails the second time; including an event group never fails and
\* appends the group's functions to the lists again
C19_DuplicateCommandRaises ==
    /\ \A i \in 1..Len(incLog) :
          LET r == incLog[i]
          IN IF r.kind = "command"
             THEN /\ (r.raised # "")
                        <=> (GroupNames(r.group) \cap DOMAIN r.before # {})
                  /\ r.raised # "" =>
                        r.raised \in GroupNames(r.group) \cap DOMAIN r.before
                  /\ r.raised = "" =>
                        /\ DOMAIN r.after =
                              DOMAIN r.before \cup GroupNames(r.group)
                        /\ \A n \in DOMAIN r.before :
                              r.after[n] = r.before[n]
             ELSE /\ r.raised = ""
                  /\ \A n \in DOMAIN r.group :
                        r.after[n] = Registered(r.before, n) \o r.group[n]
                  /\ \A n \in DOMAIN r.before \ DOMAIN r.group :
                        r.after[n] = r.before[n]
    /\ \A i \in 1..Len(incLog), j \in 1..Len(incLog) :
          (/\ i < j
           /\ incLog[i].kind = "command"
           /\ incLog[j].kind = "command"
           /\ incLog[i].group = incLog[j].group
           /\ incLog[i].group # <<>>)
          => incLog[j].raised # ""

\* the same command group of two names was included twice and the second
\* call raised
C19_Witness ==
    /\ Len(incLog) = 2
    /\ incLog[1].kind = "command"
    /\ incLog[2].kind = "command"
    /\ Len(incLog[1].group) = 2
    /\ incLog[1].group = incLog[2].group
    /\ incLog[1].raised = ""
    /\ incLog[2].raised # ""

\* an event group was included twice and its function is in the list
\* twice
EventsIncludedTwice ==
    /\ Len(incLog) = 2
    /\ incLog[1].kind = "event"
    /\ incLog[1].group = incLog[2].group
    /\ \E n \in DOMAIN events : Len(events[n]) = 2

\* C20: the hub drops a frame that does not decode and goes on receiving
\* from the same client: at the step where _serve reads such a frame from
\* an open socket the sender stays in the clients map, its socket stays
\* open and _serve is back at ws.recv()
C20_UndecodableFrameDropped ==
    [][\A c \in Conn :
          (/\ pc[c] = "recv"
           /\ sock[c] = "open"
           /\ inq[c] # <<>>
           /\ Head(inq[c]).kind = "garbage"
           /\ Len(inq'[c]) < Len(inq[c]))
          => /\ uidOf[c] \in Range(clients')
             /\ sock'[c] = "open"
             /\ pc'[c] = "recv"]_vars

C24_ReplyListsEarlierOpen ==
    [][\A c \in Conn :
          (pc[c] = "handshake" /\ pc'[c] = "reply")
          => \A d \in Conn \ {c} :
                (uidOf[d] # 0 /\ sock[d] = "open" /\ pc[d] # "done")
                => uidOf[d] \in Range(cur'[c].to)]_vars

C26_SendFailed ==
    /\ callPc = "raised"
    /\ curr_cbk > 0
    /\ DOMAIN callbacks = {}

\* the shards no live cluster runs, as the brain's caches show them
needed_shards == (0..(total_shards - 1)) \ AllShards(servers, clusters)

C22_PresenceApplied ==
    ret.op = "_update_clients"
    => /\ client_uids = ret.arg
       /\ \A i \in 1..Len(servers) : servers[i].uid \in ret.arg
       /\ \A c \in clusters : c.uid \in ret.arg
       /\ \A k \in DOMAIN clusters_by_cluster_id :
             clusters_by_cluster_id[k].uid \in ret.arg

\* a presence message has evicted a server and a cluster and left others
C22_Witness ==
    /\ ret.op = "_update_clients"
    /\ ret.val \cap ServerInfoUids # {}
    /\ ret.val \cap ClusterInfoUids # {}
    /\ servers # <<>>
    /\ clusters # {}

\* the cluster c is ready, its server is in the server registry and lists it
IsLiveCluster(c) ==
    /\ c.ready
    /\ \E i \in 1..Len(servers) :
          /\ servers[i].uid = c.server_uid
          /\ c.uid \in servers[i].cluster_uids

\* C28: a read of waiting_for yields None, and clears the slot, if the
\* target server is not in the server registry or the awaited shard is a
\* shard of a live cluster; otherwise it yields the stored tuple and leaves
\* it stored
C28_GetterClearsOrKeeps ==
    ret.op = "waiting_for"
    => /\ waiting_for = ret.val
       /\ ret.arg = <<>> => ret.val = <<>>
       /\ ret.arg # <<>> =>
             LET gone == \A i \in 1..Len(servers) :
                            servers[i].uid # ret.arg[1]
                 live == \E c \in clusters :
                            IsLiveCluster(c) /\ ret.arg[2] \in c.shard_ids
             IN IF gone \/ live THEN ret.val = <<>> ELSE ret.val = ret.arg

\* a read cleared a slot whose server is registered: the shard is live
C28_Witness ==
    /\ ret.op = "waiting_for"
    /\ ret.arg # <<>>
    /\ ret.val = <<>>
    /\ ret.arg[1] \in ServerUids(servers)

\* a read cleared a slot whose server has left the registry
C28_ServerGone ==
    /\ ret.op = "waiting_for"
    /\ ret.arg # <<>>
    /\ ret.val = <<>>
    /\ ret.arg[1] \notin ServerUids(servers)
    /\ servers # <<>>

\* a read returned the stored tuple while a cluster is live
C28_Kept ==
    /\ ret.op = "waiting_for"
    /\ ret.arg # <<>>
    /\ ret.val = ret.arg
    /\ \E c \in clusters : IsLiveCluster(c)

\* C30: all_shards() returns exactly the shards of the cached clusters
\* that are ready, whose server_uid is a key of the server registry and
\* whose uid is in that server's cluster_uids
C30_AllShardsExact ==
    ret.op = "all_shards"
    => /\ \A c \in clusters : IsLiveCluster(c) => c.shard_ids \subseteq ret.val
       /\ \A x \in ret.val :
             \E c \in clusters : IsLiveCluster(c) /\ x \in c.shard_ids

\* all_shards() returned the shards of one cluster and left out those of a
\* cached cluster that is not ready and of none that is
C30_Witness ==
    /\ ret.op = "all_shards"
    /\ ret.val # {}
    /\ \E c \in clusters :
          /\ ~c.ready
          /\ c.shard_ids \cap ret.val = {}
          /\ \E i \in 1..Len(servers) :
                /\ servers[i].uid = c.server_uid
                /\ c.uid \in servers[i].cluster_uids

\* C25: the periodic announcement of a role resumes after a connection
\* loss and a new Ready, and no ConnectionClosed raised by one announcement
\* ends it for good: whenever the role is Ready on its second connection,
\* nothing has asked it to stop and its loop was not cancelled, the loop's
\* task is running
C25_AnnouncementsResume ==
    (/\ connPc = "ready"
     /\ attempts = 2
     /\ ready_future = "done"
     /\ closePc = "open"
     /\ LoopTask \notin cancelReq)
    => tstate[LoopTask] = "running"

\* the same of the roles whose loop catches ConnectionClosed
C25_CaughtLoopsResume ==
    role \in {"server", "client"} => C25_AnnouncementsResume

\* a server is Ready on its second connection and has announced itself on
\* both
C25_ServerResumed ==
    /\ role = "server"
    /\ connPc = "ready"
    /\ attempts = 2
    /\ wire = 0
    /\ Cardinality({f \in written : f.by = LoopTask}) = 2
    /\ tstate[LoopTask] = "running"

\* C29: a launch_cluster that does not result in a live cluster, its
\* process exiting before its cluster is announced as live while the
\* target server stays connected, does not block placement: the brain
\* clears waiting_for and launches those shards again; so once the brain,
\* the servers and the clusters have nothing left to do, the slot is empty
\* and the launch has been sent
C29_FailedLaunchRetried ==
    \A p \in procs :
        (/\ ~p.alive
         /\ ~p.diedLive
         /\ srvUp[p.srv]
         /\ nlaunch < MaxLaunches
         /\ ~ENABLED ReapProgress)
        => /\ waiting_for = <<>>
           /\ RelaunchesOf(p) # {}

\* C21: a frame with internal = true only updates the presence state: it
\* is never decoded as a payload and never reaches the command handler,
\* the event handler or the callback engine; at the step where the receive
\* loop reads it client_uids becomes its list, no cache gains or changes a
\* record, and no callback, command or event state changes
C21_InternalOnlyPresence ==
    [][/\ \A i \in 1..Len(msgLog') :
             msgLog'[i].frame.internal
             => (msgLog'[i].by = "presence" /\ ~msgLog'[i].decoded)
       /\ (/\ Len(msgLog') = Len(msgLog) + 1
           /\ msgLog'[Len(msgLog')].frame.internal)
          => /\ client_uids' = msgLog'[Len(msgLog')].frame.client_uids
             /\ Range(servers') \subseteq Range(servers)
             /\ clusters' \subseteq clusters
             /\ \A k \in DOMAIN clusters_by_cluster_id' :
                   /\ k \in DOMAIN clusters_by_cluster_id
                   /\ clusters_by_cluster_id'[k] = clusters_by_cluster_id[k]
             /\ UNCHANGED <<ipcRest, regVars, waiting_for>>]_vars

\* a presence message was read after an event had filled the server cache,
\* and has emptied it
C21_Witness ==
    \E i \in 1..Len(msgLog), j \in 1..Len(msgLog) :
       /\ i < j
       /\ msgLog[i].by = "events"
       /\ msgLog[i].frame.name = "set_server_info"
       /\ msgLog[j].frame.internal
       /\ msgLog[j].by = "presence"
       /\ client_uids = msgLog[j].frame.client_uids
       /\ servers = <<>>

\* the shard blocks the brain expects a cluster for
ExpectedBlocks == {Block(k) : k \in 1..total_clusters}

AnnouncerOf(c) == CHOOSE p \in procs : p.uid = c.uid

\* C32: a cluster announces ready = true only when it has started as many
\* shards as it was assigned shard ids; so every record the brain has
\* received with ready = true comes from a process whose started shards
\* are as many as its shard_ids
C32_ReadyOnlyWhenStarted ==
    \A c \in clusters :
        c.ready =>
            Cardinality(shards(AnnouncerOf(c)))
               = Cardinality(AnnouncerOf(c).shard_ids)

\* the four caches of the client are empty
CachesEmpty ==
    /\ client_uids = {}
    /\ servers = <<>>
    /\ clusters = {}
    /\ clusters_by_cluster_id = <<>>

\* while ready_future is resolved the client holds a socket, and its uid
\* is the one the hub handed out in the handshake on that socket: the hub
\* counts on from its last peer, one uid for every connection
ResolvedOnlyOnSocket ==
    ready_future = "done"
    => /\ _ws
       /\ connPc = "ready"
       /\ uid = <<current_uid>>
       /\ current_uid = LastPeerUid + attempts

C33_Reconnected ==
    /\ _ws
    /\ ready_future = "done"
    /\ attempts = 2
    /\ servers # <<>>

C34_AcceptLoopNotCancelled ==
    /\ [](AcceptTask \notin hubCancelReq)
    /\ [][(hubClosePc = "open" /\ hubClosePc' # "open"
             /\ hubTask[BroadcastTask] = "running")
          => BroadcastTask \in hubCancelReq']_vars
    /\ [][naccepted' # naccepted => acceptPc = "serving"]_vars
    /\ [][(acceptPc = "closing" \/ acceptPc = "done")
          => (acceptPc' = "closing" \/ acceptPc' = "done")]_vars
    /\ (hub_stop_future /\ hubClosePc # "open")
          ~> (acceptPc = "done" /\ hubTask[AcceptTask] = "done"
                /\ hubTask[BroadcastTask] = "cancelled")

\* the hub served a connection, stop() and close() were called, the
\* broadcast task was cancelled by close() and the _start task, never
\* cancelled, has returned
C34_Witness ==
    /\ naccepted > 0
    /\ hub_stop_future
    /\ hubClosePc = "closed"
    /\ hubCancelReq = {BroadcastTask}
    /\ hubTask[BroadcastTask] = "cancelled"
    /\ hubTask[AcceptTask] = "done"
    /\ acceptExit = "return"

\* the cluster processes that are connected to the hub
ConnectedClusters == {p \in procs : p.alive /\ p.uid # 0}

\* C35: no two cluster processes that are connected to the hub at the
\* same time have a shard id in common
C35_NoOverlappingShards ==
    \A p, q \in ConnectedClusters :
        p # q => p.shard_ids \cap q.shard_ids = {}

\* the shard ids S are ShardsPerCluster many and form an aligned block
AlignedBlock(S) ==
    /\ Cardinality(S) = ShardsPerCluster
    /\ \E k \in 0..(total_clusters - 1) :
          S = (k * ShardsPerCluster)..((k + 1) * ShardsPerCluster - 1)

C37_ByClusterIdCoversClusters ==
    /\ \A c \in clusters : cluster_id(c) \in DOMAIN clusters_by_cluster_id
    /\ \A k \in DOMAIN clusters_by_cluster_id :
          \E c \in clusters : c.uid = clusters_by_cluster_id[k].uid

\* C38: in every state of a hub client, every uid that keys an entry of
\* its server cache or of its cluster cache is in its client_uids
C38_InfoKeysInPresence ==
    ServerUids(servers) \cup {c.uid : c \in clusters} \subseteq client_uids

\* C39: every CommandHandler.include that raised CommandAlreadyExists left
\* the command table as it was before the call
C39_RaisedIncludeAddsNothing ==
    \A i \in 1..Len(incLog) :
        (incLog[i].kind = "command" /\ incLog[i].raised # "")
            => incLog[i].after = incLog[i].before

\* C40: the IpcClient of a cluster connects once: when its connection
\* closes, _start ends instead of connecting again; and once the connection
\* has closed, or the hub has rejected the token, the IpcClient's
\* stop_future becomes done and the worker, back from join(), calls close()
C40_ClosedConnectionEndsWorker ==
    /\ [][(connPc = "ready" /\ connPc' # "ready")
             => (connPc' = "done" /\ tstate'[ConnTask] = "done")]_vars
    /\ [](attempts <= 1)
    /\ (wire # 0 \/ rejectedAt # 0) ~> stop_future
    /\ (wire # 0 \/ rejectedAt # 0) ~> (closePc # "open")

\* a cluster whose connection closed while no cluster_stop had come: its
\* _start returned after one connection, the done callback set the stop
\* signal, and the worker's close() has returned
C40_Witness ==
    /\ role = "cluster"
    /\ attempts = 1
    /\ connExit = "return"
    /\ ConnTask \notin cancelReq
    /\ doneCb
    /\ stop_future
    /\ ~cluster_stop_future
    /\ closePc = "closed"

============================================================================
